---- MODULE Spec2Model ----
(***************************************************************************)
(* Verification model of ronihogri/financial-doc-reader: the voting loop   *)
(* (gpt_completion, check_majority, count_votes) of the three steps and    *)
(* the tier loops of get_sum_units (step 2), get_ccp and get_ltd (step 3). *)
(***************************************************************************)
EXTENDS Integers, Sequences, FiniteSets, TLC

VARIABLES
    step,           \* which script runs: 1, 2 or 3
    stage,          \* "vote" (bare vote collection), "index", "units", "vd", "ccp", "ltd"
    caller,         \* who waits for gpt_completion: "vote", "tier", "supervisor"
    pc,             \* "start", "gpt", "returned", "raised", "quota", "done"
    model,          \* model argument of the running gpt_completion
    output_dtype,   \* output_dtype argument ("str" in steps 1 and 2)
    trials,         \* trials argument
    trial_counter,  \* trial_counter local
    fail_counter,   \* fail_counter local
    votes,          \* votes dict, as the sequence of its values in key order
    majority,       \* last value of the local "majority" (None is FALSE)
    calls,          \* oracle calls issued by the running gpt_completion
    pacing,         \* history: the last of the sleep / create events, and whether a
                    \* create ever came without a sleep right before it
    decision,       \* count_votes(votes) of a bare vote collection
    i,              \* tier loop index of the running stage
    problems_list,  \* problems_list local of the running stage
    model_dict,     \* model_dict local: decisions per model and supervisor
    result_dict,    \* unit_dict / ccp_dict / ltd_dict local
    log,            \* the item's JSON log file: stage data, model, problems
    column,         \* value_date_column read from the log (step 3)
    has_section,    \* whether find_key finds the assets/liabilities section
    prior,          \* history: the log's problem list when the stage began
    asked,          \* history: the ask_* calls made, in order
    tiers,          \* history: one record per finished tier attempt
    form_ids,       \* ids of the Forms table
    existing,       \* Form_ids of the Tasks rows whose checkpoint column is not null
    RETRY_LIST,     \* user variable (a list of ids)
    SKIP_EXISTING,  \* user variable
    FIRST_ROW_TO_OVERWRITE, \* user variable
    BATCH_SIZE,     \* user variable, rewritten by get_forms_info (None is NoneInt)
    returned,       \* history: one record per get_forms_info call
    run_pc,         \* position of main: "start", "confirm", "loop", "vd", "ccp", "ltd", "sql",
                    \* "locked" (the prompt of update_sql), "ended"
    forms_info,     \* the batch, as the sequence of its form ids
    form_i,         \* loop variable i of main
    previous_tasks_incomplete, \* list of skipped form ids
    forms_with_problems,       \* list of forms whose log holds problems
    Tasks,          \* Tasks table: one row per form id, or NoRow
    FormProblems,   \* FormProblems table: the Problem_id of the rows of each form id, in row order
    logs,           \* the JSON log file of each form, or NoLog
    summary,        \* what report_done printed, or NoSummary
    exit_kind,      \* how main ended: "none", "normal", "empty", "declined", "error", "interrupt", "quit"
    error,          \* the exception that ended main, "" if none
    overwrite,      \* what the operator typed at the prompt of check_overwrite
    retry_input,    \* what the operator typed at the last prompt of the running update_sql
    settings,       \* the user-defined variables as written in the script, as Python values
    initial,        \* history: Tasks, FormProblems and the logs as they were when main began
    oracle_for,     \* history: forms for which an ask_* call was made in this run
    log_written,    \* history: forms whose log file was written in this run
    ledger_written, \* history: forms whose Tasks / FormProblems rows were written in this run
    attempt_problems, \* history: the problems each form's stages logged in this run, in order
    written_before  \* history: for each earlier run, the forms whose Tasks / FormProblems
                    \* rows it wrote

gptVars == <<model, output_dtype, trials, trial_counter, fail_counter, votes, majority, calls, pacing>>
stageVars == <<i, problems_list, model_dict, result_dict, log, column, has_section, prior, asked, tiers>>
schedVars == <<form_ids, existing, RETRY_LIST, SKIP_EXISTING, FIRST_ROW_TO_OVERWRITE, BATCH_SIZE, returned>>
runVars == <<run_pc, forms_info, form_i, previous_tasks_incomplete, forms_with_problems, Tasks,
             FormProblems, logs, summary, exit_kind, error, overwrite, retry_input, settings, initial,
             oracle_for, log_written, ledger_written, attempt_problems, written_before>>
mainVars == <<schedVars, runVars>>
vars == <<step, stage, caller, pc, decision, gptVars, stageVars, mainVars>>

-----------------------------------------------------------------------------
(* Bounds and program constants *)

MaxTrials == 5

GPT_ATTEMPTS == 3
MAX_MINI_VOTES == 5
MAX_SUPERVISOR_VOTES == 1
UNITS_MINI_TRIALS == 3
INDEX_MINI_TRIALS == 5
MAX_DISTANCE_BS == 3000

MINI == "gpt-4o-mini"
GPT_4O == "gpt-4o"
SUPERVISOR == "Supervisor (gpt-4o)"

-----------------------------------------------------------------------------
(* Python values.  A value is its type name and its str() form; two values *)
(* of different type can have the same str() form.                         *)

None == [ty |-> "NoneType", form |-> "None"]
PyStr(s) == [ty |-> "str", form |-> s]
PyVal(t, s) == [ty |-> t, form |-> s]

\* None in an integer slot (JSON null)
NoneInt == -1

\* str(v)
Str(v) == v.form

\* np.ceil(n / 2)
Ceil2(n) == (n + 1) \div 2

\* gpt_output.replace(backtick, "").strip(); the raw outputs of the model
\* carry surrounding blanks only
Clean(raw) ==
    CASE raw = " [1, 2] " -> "[1, 2]"
      [] raw = " 1000 " -> "1000"
      [] raw = " ['2'] " -> "['2']"
      [] OTHER -> raw

\* convert_model_output(model_output, type_): type_(ast.literal_eval(s)),
\* None when literal_eval or the type function raises
convert_model_output(s, type_) ==
    CASE type_ = "list" ->
            (CASE s = "[1, 2]" -> PyVal("list", "[1, 2]")
               [] s = "[1e999]" -> PyVal("list", "[inf]")
               [] s = "[]" -> PyVal("list", "[]")
               [] s = "['2']" -> PyVal("list", "['2']")
               [] s = "['1', '2']" -> PyVal("list", "['1', '2']")
               [] s = "['3']" -> PyVal("list", "['3']")
               [] s = "[20231231, 20221231]" -> PyVal("list", s)
               [] s = "[20221231, 20231231]" -> PyVal("list", s)
               [] OTHER -> None)
      [] type_ = "int" ->
            (CASE s = "1" -> PyVal("int", "1")
               [] s = "1000" -> PyVal("int", "1000")
               [] s = "1000.0" -> PyVal("int", "1000")
               [] s = "1000000" -> PyVal("int", "1000000")
               [] s = "7" -> PyVal("int", "7")
               [] s = "0" -> PyVal("int", "0")
               [] OTHER -> None)
      [] type_ = "dict" ->
            (CASE s = "{'1': ['Current assets', 'Cash']}" -> PyVal("dict", s)
               [] s = "{'1': ['Current assets', 'Cash'], '2': ['Current assets', 'Receivables']}" -> PyVal("dict", s)
               [] s = "{'1': ['Bogus']}" -> PyVal("dict", s)
               [] s = "{'1': ['Current assets']}" -> PyVal("dict", s)
               [] s = "{'1': ['Long-term debt']}" -> PyVal("dict", s)
               [] s = "{'1': ['Long-term debt'], '2': ['Current portion of debt']}" -> PyVal("dict", s)
               [] s = "{'1': ['Non-current liabilities']}" -> PyVal("dict", s)
               [] OTHER -> None)
      [] OTHER -> None

-----------------------------------------------------------------------------
(* Vote counting *)

\* number of entries of seq equal to x
Cnt(seq, x) == Cardinality({k \in DOMAIN seq : seq[k] = x})

\* the keys a Counter is built on: the votes themselves in steps 1 and 2,
\* str(v) in step 3
CounterKeys(st, vs) == [k \in DOMAIN vs |-> IF st = 3 THEN Str(vs[k]) ELSE vs[k].form]

\* Counter(...).most_common(1)[0]: the first-inserted key of highest count,
\* given as the index of its first occurrence
most_common(keys) ==
    CHOOSE m \in DOMAIN keys :
        /\ \A k \in DOMAIN keys : Cnt(keys, keys[k]) <= Cnt(keys, keys[m])
        /\ \A k \in DOMAIN keys : k < m => Cnt(keys, keys[k]) < Cnt(keys, keys[m])

check_majority_floor(st, vs, T) ==
    LET keys == CounterKeys(st, vs)
    IN  Cnt(keys, keys[most_common(keys)]) = T \div 2

check_majority_strict(st, vs, T) ==
    LET keys == CounterKeys(st, vs)
    IN  Cnt(keys, keys[most_common(keys)]) = Ceil2(T) + 1

check_majority(st, vs, T) ==
    LET keys == CounterKeys(st, vs)
    IN  Cnt(keys, keys[most_common(keys)]) = Ceil2(T)

count_votes_floor(st, vs) ==
    LET keys == CounterKeys(st, vs)
        m == most_common(keys)
    IN  IF Cnt(keys, keys[m]) < Len(vs) \div 2 THEN None ELSE vs[m]

count_votes_plurality(st, vs) ==
    LET keys == CounterKeys(st, vs)
    IN  vs[most_common(keys)]

count_votes_last(st, vs) ==
    LET keys == CounterKeys(st, vs)
        m == most_common(keys)
        last == CHOOSE k \in DOMAIN vs :
                    /\ keys[k] = keys[m]
                    /\ \A j \in DOMAIN vs : j > k => keys[j] # keys[m]
    IN  IF Cnt(keys, keys[m]) < Ceil2(Len(vs)) THEN None ELSE vs[last]

count_votes(st, vs) ==
    LET keys == CounterKeys(st, vs)
        m == most_common(keys)
        majority_str == keys[m]
        first == CHOOSE k \in DOMAIN vs :
                    /\ keys[k] = majority_str
                    /\ \A j \in DOMAIN vs : j < k => keys[j] # majority_str
    IN  IF Cnt(keys, keys[m]) < Ceil2(Len(vs))
        THEN None
        ELSE IF st = 3 THEN vs[first] ELSE PyStr(keys[m])

-----------------------------------------------------------------------------
(* The oracle: what the model may answer to each request *)

VoteOutputs == {"[1, 2]", " [1, 2] ", "[1e999]", "[inf]", "None"}

UnitsOutputs == {"1000", " 1000 ", "1000.0", "7", "0", "abc", "None"}

CcpOutputs ==
    {"{'1': ['Current assets', 'Cash']}",
     "{'1': ['Current assets', 'Cash'], '2': ['Current assets', 'Receivables']}",
     "{'1': ['Bogus']}",
     "{'1': ['Current assets']}",
     "['Cash']",
     "None"}

LtdOutputs ==
    {"{'1': ['Long-term debt']}",
     "{'1': ['Long-term debt'], '2': ['Current portion of debt']}",
     "{'1': ['Bogus']}",
     "{'1': ['Non-current liabilities']}",
     "['Debt']",
     "None"}

IndexOutputs == {"1", "1.0", "5", "0", "abc"}

VdOutputs == {"[20231231, 20221231]", "[20221231, 20231231]", "[]", "None"}

SupervisorOutputs == {" ['2'] ", "['1', '2']", "['3']", "[]", "None"}

\* answers to ask_post_table_text: text that follows the table in the block,
\* a number, text that is not in the block, None, nothing
BodyOutputs == {"See accompanying notes.", "123", "Not in the text block", "None", ""}

\* answers to ask_table_json: the table as a dict with 20 keys or more, a
\* small dict whose closing brace is missing, a list, no JSON, None
JsonOutputs == {"{<balance sheet, 24 keys>}", "{\"Assets\": {\"Cash\": [1, 2]}", "[1, 2]", "{Assets", "None"}

RawOutputs ==
    IF caller = "supervisor" THEN SupervisorOutputs
    ELSE CASE stage = "vote" -> VoteOutputs
           [] stage = "units" -> UnitsOutputs
           [] stage = "index" -> IndexOutputs
           [] stage = "vd" -> VdOutputs
           [] stage = "ccp" -> CcpOutputs
           [] stage = "ltd" -> LtdOutputs
           [] stage = "body" -> BodyOutputs
           [] stage = "json" -> JsonOutputs

-----------------------------------------------------------------------------
(* gpt_completion *)

\* no oracle call and no wait has happened
NoPacing == [last |-> "none", unpaced |-> FALSE]

\* what one pass through the while loop of gpt_completion does before the
\* completion returns or raises: time.sleep(PLAY_NICE), then
\* client.chat.completions.create(...); fails is fail_counter
loop_events_retry_at_once(fails) == IF fails > 0 THEN <<"create">> ELSE <<"sleep", "create">>
loop_events(fails) == <<"sleep", "create">>

\* the pacing history after the events evs
RECURSIVE pace(_, _)
pace(p, evs) ==
    IF evs = <<>> THEN p
    ELSE pace([last |-> Head(evs),
               unpaced |-> p.unpaced \/ (Head(evs) = "create" /\ p.last # "sleep")],
              Tail(evs))

\* entry of gpt_completion(model, ..., output_dtype, trials, trial_counter),
\* called by who
StartGptAt(m, dtype, T, tc, who) ==
    /\ model' = m
    /\ output_dtype' = dtype
    /\ trials' = T
    /\ trial_counter' = tc
    /\ fail_counter' = 0
    /\ votes' = <<>>
    /\ majority' = FALSE
    /\ calls' = 0
    /\ UNCHANGED pacing
    /\ caller' = who
    /\ pc' = "gpt"

\* entry of gpt_completion with the default trial_counter=0
StartGpt(m, dtype, T, who) == StartGptAt(m, dtype, T, 0, who)

\* votes[trial_counter] after a successful completion
NewVote(raw) ==
    LET cleaned == Clean(raw)
        conversion_result == convert_model_output(cleaned, output_dtype)
    IN  IF step = 3 /\ output_dtype # "str" /\ conversion_result # None
        THEN conversion_result
        ELSE PyStr(cleaned)

\* "reached maximal number of votes": == in step 1, >= in steps 2 and 3
MaxReached_after(tc) == tc > trials
MaxReached(tc) == IF step = 1 THEN tc = trials ELSE tc >= trials

\* one loop iteration whose completion succeeds
GptSuccess_resets(raw) ==
    /\ pc = "gpt"
    /\ calls' = calls + 1
    /\ pacing' = pace(pacing, loop_events(fail_counter))
    /\ votes' = Append(votes, NewVote(raw))
    /\ IF trials = 1
       THEN /\ pc' = "returned"
            /\ UNCHANGED <<trial_counter, majority>>
       ELSE /\ trial_counter' = trial_counter + 1
            /\ IF trial_counter' >= Ceil2(trials)
               THEN majority' = check_majority(step, votes', trials)
               ELSE majority' = majority
            /\ pc' = IF majority' \/ MaxReached(trial_counter') THEN "returned" ELSE "gpt"
    /\ fail_counter' = 0
    /\ UNCHANGED <<model, output_dtype, trials>>
    /\ UNCHANGED <<step, stage, caller, decision, stageVars, mainVars>>
GptSuccess(raw) ==
    /\ pc = "gpt"
    /\ calls' = calls + 1
    /\ pacing' = pace(pacing, loop_events(fail_counter))
    /\ votes' = Append(votes, NewVote(raw))
    /\ IF trials = 1
       THEN /\ pc' = "returned"
            /\ UNCHANGED <<trial_counter, majority>>
       ELSE /\ trial_counter' = trial_counter + 1
            /\ IF trial_counter' >= Ceil2(trials)
               THEN majority' = check_majority(step, votes', trials)
               ELSE majority' = majority
            /\ pc' = IF majority' \/ MaxReached(trial_counter') THEN "returned" ELSE "gpt"
    /\ UNCHANGED <<model, output_dtype, trials, fail_counter>>
    /\ UNCHANGED <<step, stage, caller, decision, stageVars, mainVars>>

\* one loop iteration whose completion raises openai.OpenAIError
GptTransientFailure ==
    /\ pc = "gpt"
    /\ calls' = calls + 1
    /\ pacing' = pace(pacing, loop_events(fail_counter))
    /\ fail_counter' = fail_counter + 1
    /\ pc' = IF fail_counter' = GPT_ATTEMPTS THEN "raised" ELSE "gpt"
    /\ UNCHANGED <<model, output_dtype, trials, trial_counter, votes, majority>>
    /\ UNCHANGED <<step, stage, caller, decision, stageVars, mainVars>>

\* one loop iteration whose completion raises openai.RateLimitError
GptRateLimit ==
    /\ pc = "gpt"
    /\ calls' = calls + 1
    /\ pacing' = pace(pacing, loop_events(fail_counter))
    /\ pc' = "quota"
    /\ UNCHANGED <<model, output_dtype, trials, trial_counter, fail_counter, votes, majority>>
    /\ UNCHANGED <<step, stage, caller, decision, stageVars, mainVars>>

GptStep ==
    \/ \E raw \in RawOutputs : GptSuccess(raw)
    \/ GptTransientFailure
    \/ GptRateLimit

-----------------------------------------------------------------------------
(* A bare vote collection: votes = ask_*(..., trials), then count_votes(votes) *)

IdleStage ==
    /\ i = 0
    /\ problems_list = <<>>
    /\ model_dict = <<>>
    /\ result_dict = <<>>
    /\ log = <<>>
    /\ column = 0
    /\ has_section = TRUE
    /\ prior = <<>>
    /\ asked = <<>>
    /\ tiers = <<>>

\* main does not run
IdleRun ==
    /\ run_pc = "idle"
    /\ forms_info = <<>>
    /\ form_i = 0
    /\ previous_tasks_incomplete = <<>>
    /\ forms_with_problems = <<>>
    /\ Tasks = <<>>
    /\ FormProblems = <<>>
    /\ logs = <<>>
    /\ summary = <<>>
    /\ exit_kind = "none"
    /\ error = ""
    /\ overwrite = ""
    /\ retry_input = ""
    /\ settings = <<>>
    /\ initial = <<>>
    /\ oracle_for = {}
    /\ log_written = {}
    /\ ledger_written = {}
    /\ attempt_problems = <<>>
    /\ written_before = <<>>

\* no scheduler call is modelled: the user variables have their defaults
IdleMain ==
    /\ form_ids = {}
    /\ existing = {}
    /\ RETRY_LIST = <<>>
    /\ SKIP_EXISTING = TRUE
    /\ FIRST_ROW_TO_OVERWRITE = 1
    /\ BATCH_SIZE = NoneInt
    /\ returned = <<>>
    /\ IdleRun

InitVote ==
    /\ step \in {1, 2, 3}
    /\ stage = "vote"
    /\ caller = "vote"
    /\ pc = "gpt"
    /\ model = MINI
    /\ output_dtype = IF step = 3 THEN "list" ELSE "str"
    /\ trials \in 1..MaxTrials
    /\ trial_counter = 0
    /\ fail_counter = 0
    /\ votes = <<>>
    /\ majority = FALSE
    /\ calls = 0
    /\ pacing = NoPacing
    /\ decision = None
    /\ IdleStage
    /\ IdleMain

\* model_dict[model]['decision'] = count_votes(votes)
CountVotes ==
    /\ pc = "returned"
    /\ caller = "vote"
    /\ decision' = count_votes(step, votes)
    /\ pc' = "done"
    /\ UNCHANGED <<step, stage, caller, gptVars, stageVars, mainVars>>

NextVote ==
    \/ GptStep
    \/ CountVotes

SpecVote == InitVote /\ [][NextVote]_vars

-----------------------------------------------------------------------------
(* The table JSON and the decisions about it (step 3) *)


\* None in a dict slot (ccp_dict / ltd_dict before a tier sets it)
NoneDict == [k \in {"None"} |-> <<>>]
NoneSums == [k \in {"None"} |-> NoneInt]

\* a supervisor entry that model_dict[SUPERVISOR] does not hold
NotAsked == [ty |-> "absent", form |-> ""]

\* assets = table_json[assets_key], liabilities = table_json[liabilities_key]:
\* every key path of the section, with the node it leads to
Section(stg) ==
    IF stg = "ccp"
    THEN (<<"Current assets">> :> [kind |-> "dict", cells |-> <<>>])
      @@ (<<"Current assets", "Cash">> :> [kind |-> "list", cells |-> <<5, 6>>])
      @@ (<<"Current assets", "Receivables">> :> [kind |-> "list", cells |-> <<7, 8>>])
    ELSE (<<"Non-current liabilities">> :> [kind |-> "dict", cells |-> <<>>])
      @@ (<<"Long-term debt">> :> [kind |-> "list", cells |-> <<9, 10>>])
      @@ (<<"Current portion of debt">> :> [kind |-> "list", cells |-> <<3, 4>>])

\* the dict a dict-typed value holds
DictContent(form) ==
    CASE form = "{'1': ['Current assets', 'Cash']}" ->
            ("1" :> <<"Current assets", "Cash">>)
      [] form = "{'1': ['Current assets', 'Cash'], '2': ['Current assets', 'Receivables']}" ->
            ("1" :> <<"Current assets", "Cash">>) @@ ("2" :> <<"Current assets", "Receivables">>)
      [] form = "{'1': ['Bogus']}" ->
            ("1" :> <<"Bogus">>)
      [] form = "{'1': ['Bogus'], '2': ['Other']}" ->
            ("1" :> <<"Bogus">>) @@ ("2" :> <<"Other">>)
      [] form = "{'1': ['Current assets']}" ->
            ("1" :> <<"Current assets">>)
      [] form = "{'1': ['Long-term debt']}" ->
            ("1" :> <<"Long-term debt">>)
      [] form = "{'1': ['Long-term debt'], '2': ['Current portion of debt']}" ->
            ("1" :> <<"Long-term debt">>) @@ ("2" :> <<"Current portion of debt">>)
      [] form = "{'1': ['Non-current liabilities']}" ->
            ("1" :> <<"Non-current liabilities">>)

\* the elements of a list-typed value
ListContent(form) ==
    CASE form = "['2']" -> {"2"}
      [] form = "['1', '2']" -> {"1", "2"}
      [] form = "['3']" -> {"3"}
      [] OTHER -> {}

\* the int an int-typed value holds
IntOf(v) ==
    CASE v.form = "1" -> 1
      [] v.form = "1000" -> 1000
      [] v.form = "1000000" -> 1000000
      [] v.form = "7" -> 7
      [] v.form = "0" -> 0

\* term in key.lower().replace("-", " ")
Contains(key, term) ==
    <<key, term>> \in
        {<<"Current assets", "current">>,
         <<"Receivables", "receivable">>,
         <<"Long-term debt", "long term">>,
         <<"Long-term debt", "term debt">>,
         <<"Current portion of debt", "current">>,
         <<"Non-current liabilities", "current">>,
         <<"Non-current liabilities", "non current">>}

\* iteration order of the dicts (insertion order of the keys)
KeyOrder == <<"1", "2">>

\* the keys in S, in iteration order
RECURSIVE KeysWhere(_, _)
KeysWhere(S, n) ==
    IF n > Len(KeyOrder) THEN <<>>
    ELSE (IF KeyOrder[n] \in S THEN <<KeyOrder[n]>> ELSE <<>>) \o KeysWhere(S, n + 1)

check_dict_paths(dict_paths, stg) ==
    KeysWhere({k \in DOMAIN dict_paths : dict_paths[k] \notin DOMAIN Section(stg)}, 1)

get_dict_path_value(dict_path, stg, col) ==
    LET node == Section(stg)[dict_path]
    IN  IF node.kind # "list" THEN NoneInt
        ELSE IF col = NoneInt \/ col + 1 > Len(node.cells) THEN NoneInt
        ELSE node.cells[col + 1]

get_sums_per_key_paths(dict_paths, stg, col) ==
    [k \in DOMAIN dict_paths |-> get_dict_path_value(dict_paths[k], stg, col)]

suspect_ccp_terms(dict_paths) ==
    \E k \in DOMAIN dict_paths :
        LET path == dict_paths[k]
        IN  \/ \E suspect \in {"escrow", "inventor", "receivable", "tax", "total"} :
                    Contains(path[Len(path)], suspect)
            \/ ~\E n \in DOMAIN path : Contains(path[n], "current")

suspect_ltd_terms(dict_paths) ==
    \/ \E k \in DOMAIN dict_paths :
        LET path == dict_paths[k]
        IN  /\ \E n \in DOMAIN path : \E suspect \in {"current", "short term"} : Contains(path[n], suspect)
            /\ ~\E n \in DOMAIN path : \E redeemer \in {"non current", "long term", "term debt"} :
                    Contains(path[n], redeemer)
    \/ \E k \in DOMAIN dict_paths :
        LET path == dict_paths[k]
        IN  \E suspect \in {"tax", "total"} : Contains(path[Len(path)], suspect)

suspect_terms(stg, dict_paths) ==
    IF stg = "ccp" THEN suspect_ccp_terms(dict_paths) ELSE suspect_ltd_terms(dict_paths)

-----------------------------------------------------------------------------
(* Problem descriptions *)

ProblemNotFound(stg) ==
    CASE stg = "units" -> "units: sum reporting units not found"
      [] stg = "ccp" -> "CCP: key paths not found"
      [] stg = "ltd" -> "LTD: key paths not found"

ProblemNotDict(stg) ==
    IF stg = "ccp" THEN "CCP: dict paths not in dict format" ELSE "LTD: dict paths not in dict format"

ProblemBadPath(stg, idx) ==
    CASE stg = "ccp" /\ idx = "1" -> "CCP: problematic dict path: index = 1"
      [] stg = "ccp" /\ idx = "2" -> "CCP: problematic dict path: index = 2"
      [] stg = "ltd" /\ idx = "1" -> "LTD: problematic dict path: index = 1"
      [] stg = "ltd" /\ idx = "2" -> "LTD: problematic dict path: index = 2"

ProblemMissingSum(stg, idx) ==
    CASE stg = "ccp" /\ idx = "1" -> "CCP: missing sum(s) detected: index = 1"
      [] stg = "ccp" /\ idx = "2" -> "CCP: missing sum(s) detected: index = 2"
      [] stg = "ltd" /\ idx = "1" -> "LTD: missing sum(s) detected: index = 1"
      [] stg = "ltd" /\ idx = "2" -> "LTD: missing sum(s) detected: index = 2"

ProblemSuspicious(stg) ==
    IF stg = "ccp" THEN "CCP: suspicious key path(s) detected" ELSE "LTD: suspicious key path(s) detected"

ProblemSectionMissing(stg) ==
    IF stg = "ccp" THEN "CCP: assets not found in json table" ELSE "LTD: liabilities not found in json table"

ProblemNoTable == "balance sheet: no table found in text block list"
ProblemIndexOutOfRange == "balance sheet: table index out of range: 5, when len(balance_sheet_text) = 3"
ProblemTooShort == "balance sheet: table text block too short: 100"
ProblemNotList == "value column: dates not returned as list"
ProblemNotInt == "units: sum reporting units not convertible to int"
ProblemOutOfRange == "units: sum reporting units out of range"

-----------------------------------------------------------------------------
(* update_json *)

RECURSIVE Dedup(_)
\* list(dict.fromkeys(seq))
Dedup(seq) ==
    IF seq = <<>> THEN <<>>
    ELSE LET init == Dedup(SubSeq(seq, 1, Len(seq) - 1))
             x == seq[Len(seq)]
         IN  IF \E k \in DOMAIN init : init[k] = x THEN init ELSE Append(init, x)

update_json_nodedup(lg, data, md, problems) ==
    [data |-> data, model |-> md, problems |-> lg.problems \o problems]

\* update_json(log_path, [(stage,), (stage, 'model'), ('problems',)], [data, md, problems])
update_json(lg, data, md, problems) ==
    [data |-> data, model |-> md, problems |-> Dedup(lg.problems \o problems)]

-----------------------------------------------------------------------------
(* The tier loops: get_sum_units (step 2), get_ccp and get_ltd (step 3) *)

\* model, trials of tier n: (MINI, 3) or (MINI, MAX_MINI_VOTES), then (GPT_4O, 1)
TierModel(n) == IF n = 0 THEN MINI ELSE GPT_4O
TierTrials(stg, n) ==
    IF n # 0 THEN 1
    ELSE CASE stg = "units" -> UNITS_MINI_TRIALS
           [] stg = "index" -> INDEX_MINI_TRIALS
           [] OTHER -> MAX_MINI_VOTES
TierDtype(stg) ==
    CASE stg \in {"units", "index"} -> "str"
      [] stg = "vd" -> "list"
      [] OTHER -> "dict"

\* model_dict[model]['decision'] = dec
SetDecision(md, n, dec) ==
    IF n = 0 THEN [md EXCEPT !.mini = dec] ELSE [md EXCEPT !.large = dec]

\* model_dict[SUPERVISOR][model]['decision'] = dec
SetSupervisor(md, n, dec) ==
    IF n = 0 THEN [md EXCEPT !.sup_mini = dec] ELSE [md EXCEPT !.sup_large = dec]

TierDecision(md, n) == IF n = 0 THEN md.mini ELSE md.large

\* decision == 'null' or decision == 'None' or decision is None
IsNullDecision(dec) == dec = PyStr("null") \/ dec = PyStr("None") \/ dec = None

units_in_range_wide(units) == units \in {1, 7, 1000, 1000000}

\* units in [1, 1000, 10**6]
units_in_range(units) == units \in {1, 1000, 1000000}

supervisor_valid_any_list(sdec) == sdec.ty = "list"

\* decision and isinstance(decision, list)
supervisor_valid(sdec) == sdec.ty = "list" /\ sdec.form # "[]"

remove_keys_inverted(dict_paths, sdec) ==
    [k \in {key \in DOMAIN dict_paths : key \in ListContent(sdec.form)} |-> dict_paths[k]]

\* {key: value for key, value in dict_paths.items() if key not in decision}
remove_keys(dict_paths, sdec) ==
    [k \in {key \in DOMAIN dict_paths : key \notin ListContent(sdec.form)} |-> dict_paths[k]]

valid_result_never(problems) == FALSE

\* "if not problems_list: break"
valid_result(problems) == problems = <<>>

\* sum(v for v in path_sums.values() if v is not None)
RECURSIVE SumOf(_, _)
SumOf(path_sums, n) ==
    IF n > Len(KeyOrder) THEN 0
    ELSE (IF KeyOrder[n] \in DOMAIN path_sums /\ path_sums[KeyOrder[n]] # NoneInt
          THEN path_sums[KeyOrder[n]] ELSE 0) + SumOf(path_sums, n + 1)

\* the "missing sum(s)" problems, one per key whose sum is None
MissingSumProblems(stg, path_sums) ==
    LET keys == KeysWhere({k \in DOMAIN path_sums : path_sums[k] = NoneInt}, 1)
    IN  [n \in DOMAIN keys |-> ProblemMissingSum(stg, keys[n])]

TierRecord(dec, validated, suspect, sup, key_paths, problems, accepted) ==
    [model |-> TierModel(i), decision |-> dec, validated |-> validated, suspect |-> suspect,
     sup |-> sup, key_paths |-> key_paths, problems |-> problems, accepted |-> accepted]

\* "problems_list = []" at the top of the loop body: what the previous pass
\* collected is dropped
new_problems_list_keep(carried) == carried
new_problems_list(carried) == <<>>

\* the end of one pass through the loop body that appended problems:
\* break or last pass: update_json and return; otherwise the next pass starts
\* with problems_list = [] and asks the large model
EndAttempt(rec, md, problems, rd, brk) ==
    /\ tiers' = Append(tiers, rec)
    /\ model_dict' = md
    /\ result_dict' = rd
    /\ UNCHANGED <<step, stage, decision, column, has_section, prior, mainVars>>
    /\ IF brk \/ i = 1
       THEN /\ log' = update_json(log, rd, md, problems_list \o problems)
            /\ problems_list' = problems_list \o problems
            /\ pc' = "done"
            /\ UNCHANGED <<i, asked, caller, gptVars>>
       ELSE /\ i' = i + 1
            /\ problems_list' = new_problems_list(problems_list \o problems)
            /\ asked' = Append(asked, TierModel(i + 1))
            /\ StartGpt(TierModel(i + 1), TierDtype(stage), TierTrials(stage, i + 1), "tier")
            /\ UNCHANGED log

\* the lengths of the text blocks in balance_sheet_text
balance_sheet_text == <<100, 3000, 3000>>

\* get_num_columns(table_path)
num_columns == 2

\* entry of the stage function up to the first ask_* call
StageStart ==
    /\ pc = "start"
    /\ UNCHANGED <<step, stage, decision, column, has_section, prior, tiers, mainVars>>
    /\ IF stage \in {"ccp", "ltd"} /\ ~has_section
       THEN /\ log' = [log EXCEPT !.problems = Dedup(log.problems \o <<ProblemSectionMissing(stage)>>)]
            /\ pc' = "done"
            /\ UNCHANGED <<i, problems_list, model_dict, result_dict, asked, caller, gptVars>>
       ELSE /\ i' = 0
            /\ problems_list' = <<>>
            /\ model_dict' = [mini |-> None, large |-> None, sup_mini |-> NotAsked, sup_large |-> NotAsked]
            /\ result_dict' =
                  CASE stage = "units" -> [sum_units |-> NoneInt, sum_divider |-> NoneInt]
                    [] stage = "index" -> [block_count |-> Len(balance_sheet_text), table_index |-> NoneInt]
                    [] stage = "vd" -> [num_columns |-> num_columns, value_date_column |-> NoneInt]
                    [] OTHER -> [key_paths |-> NoneDict, path_sums |-> NoneSums, total_sum |-> NoneInt]
            /\ asked' = <<TierModel(0)>>
            /\ StartGpt(TierModel(0), TierDtype(stage), TierTrials(stage, 0), "tier")
            /\ UNCHANGED log

\* get_sum_units: the loop body after ask_sum_units returned
UnitsDecide ==
    /\ pc = "returned"
    /\ caller = "tier"
    /\ stage = "units"
    /\ LET dec == count_votes(step, votes)
           md == SetDecision(model_dict, i, dec)
           units == convert_model_output(dec.form, "int")
           Rejected(problem) ==
               EndAttempt(TierRecord(dec, FALSE, FALSE, NotAsked, NoneDict, <<problem>>, FALSE),
                          md, <<problem>>, result_dict, FALSE)
       IN  IF IsNullDecision(dec) THEN Rejected(ProblemNotFound(stage))
           ELSE IF units = None \/ IntOf(units) = 0 THEN Rejected(ProblemNotInt)
           ELSE IF ~units_in_range(IntOf(units)) THEN Rejected(ProblemOutOfRange)
           ELSE EndAttempt(TierRecord(dec, TRUE, FALSE, NotAsked, NoneDict, <<>>, valid_result(<<>>)),
                           md, <<>>,
                           IF valid_result(<<>>)
                           THEN [sum_units |-> IntOf(units), sum_divider |-> 1000000 \div IntOf(units)]
                           ELSE result_dict,
                           valid_result(<<>>))

\* convert_model_decision(decision): int(ast.literal_eval(decision)) for a
\* number, None otherwise
convert_model_decision(dec) ==
    CASE dec.form \in {"1", "1.0"} -> 1
      [] dec.form = "5" -> 5
      [] dec.form = "0" -> 0
      [] OTHER -> NoneInt

\* get_table_index: the loop body after ask_balance_table_index returned
IndexDecide ==
    /\ pc = "returned"
    /\ caller = "tier"
    /\ stage = "index"
    /\ LET dec == count_votes(step, votes)
           md == SetDecision(model_dict, i, dec)
           table_index == convert_model_decision(dec)
           rd == [result_dict EXCEPT !.table_index = table_index]
           Rejected(problem) ==
               EndAttempt(TierRecord(dec, FALSE, FALSE, NotAsked, NoneDict, <<problem>>, FALSE),
                          md, <<problem>>, rd, FALSE)
       IN  IF table_index = NoneInt THEN Rejected(ProblemNoTable)
           ELSE IF table_index < 0 \/ table_index > Len(balance_sheet_text) - 1
                THEN Rejected(ProblemIndexOutOfRange)
           ELSE IF balance_sheet_text[table_index + 1] * 10 < MAX_DISTANCE_BS * 9
                THEN Rejected(ProblemTooShort)
           ELSE EndAttempt(TierRecord(dec, TRUE, FALSE, NotAsked, NoneDict, <<>>, valid_result(<<>>)),
                           md, <<>>, rd, valid_result(<<>>))

\* decision.index(max(decision[:num_columns])), 0 for an empty list
vd_index(dec) ==
    CASE dec.form = "[20231231, 20221231]" -> 0
      [] dec.form = "[20221231, 20231231]" -> 1
      [] OTHER -> 0

\* get_vd_column: the loop body after ask_column_dates returned
VdDecide ==
    /\ pc = "returned"
    /\ caller = "tier"
    /\ stage = "vd"
    /\ LET dec == count_votes(step, votes)
           md == SetDecision(model_dict, i, dec)
       IN  IF dec.ty # "list"
           THEN EndAttempt(TierRecord(dec, FALSE, FALSE, NotAsked, NoneDict, <<ProblemNotList>>, FALSE),
                           md, <<ProblemNotList>>, result_dict, FALSE)
           ELSE EndAttempt(TierRecord(dec, TRUE, FALSE, NotAsked, NoneDict, <<>>, valid_result(<<>>)),
                           md, <<>>,
                           IF valid_result(<<>>)
                           THEN [result_dict EXCEPT !.value_date_column = vd_index(dec)]
                           ELSE result_dict,
                           valid_result(<<>>))

\* get_ccp / get_ltd: from get_sums_per_key_paths to the end of the loop body
FinishAttempt(dec, dict_paths, problems0, md, suspect, sup) ==
    LET path_sums == get_sums_per_key_paths(dict_paths, stage, column)
        problems == problems0 \o MissingSumProblems(stage, path_sums)
        rd == [key_paths |-> dict_paths, path_sums |-> path_sums, total_sum |-> SumOf(path_sums, 1)]
    IN  EndAttempt(TierRecord(dec, TRUE, suspect, sup, dict_paths, problems, valid_result(problems)),
                   md, problems, rd, valid_result(problems))

\* get_ccp / get_ltd: the loop body after ask_*_dict_paths returned, up to
\* the supervisor call when the paths are suspect
PathsDecide ==
    /\ pc = "returned"
    /\ caller = "tier"
    /\ stage \in {"ccp", "ltd"}
    /\ LET dec == count_votes(step, votes)
           md == SetDecision(model_dict, i, dec)
           Rejected(problems) ==
               EndAttempt(TierRecord(dec, FALSE, FALSE, NotAsked, NoneDict, problems, FALSE),
                          md, problems, result_dict, FALSE)
       IN  IF IsNullDecision(dec) THEN Rejected(<<ProblemNotFound(stage)>>)
           ELSE IF dec.ty # "dict" THEN Rejected(<<ProblemNotDict(stage)>>)
           ELSE LET dict_paths == DictContent(dec.form)
                    invalid_dict_paths == check_dict_paths(dict_paths, stage)
                IN  IF invalid_dict_paths # <<>>
                    THEN Rejected([n \in DOMAIN invalid_dict_paths |->
                                        ProblemBadPath(stage, invalid_dict_paths[n])])
                    ELSE IF suspect_terms(stage, dict_paths)
                    THEN /\ model_dict' = SetSupervisor(md, i, None)
                         /\ asked' = Append(asked, SUPERVISOR)
                         /\ StartGpt(GPT_4O, "list", MAX_SUPERVISOR_VOTES, "supervisor")
                         /\ UNCHANGED <<step, stage, decision, i, problems_list, result_dict,
                                        log, column, has_section, prior, tiers, mainVars>>
                    ELSE FinishAttempt(dec, dict_paths, <<>>, md, FALSE, NotAsked)

\* get_ccp / get_ltd: the loop body after ask_*_supervisor returned
SupervisorDecide ==
    /\ pc = "returned"
    /\ caller = "supervisor"
    /\ LET sdec == count_votes(step, votes)
           md == SetSupervisor(model_dict, i, sdec)
           dec == TierDecision(model_dict, i)
           dict_paths == DictContent(dec.form)
       IN  IF supervisor_valid(sdec)
           THEN FinishAttempt(dec, remove_keys(dict_paths, sdec), <<>>, md, TRUE, sdec)
           ELSE FinishAttempt(dec, dict_paths, <<ProblemSuspicious(stage)>>, md, TRUE, sdec)

\* the problems already in the item's log when the stage begins
PriorProblems(stg) ==
    CASE stg = "units" -> {<<>>, <<ProblemOutOfRange>>}
      [] stg = "index" -> {<<>>}
      [] stg = "vd" -> {<<>>, <<ProblemNotList>>}
      [] OTHER -> {<<>>, <<ProblemSuspicious(stg)>>}

InitStage ==
    /\ stage \in {"index", "units", "vd", "ccp", "ltd"}
    /\ step = CASE stage = "index" -> 1 [] stage = "units" -> 2 [] OTHER -> 3
    /\ caller = "tier"
    /\ pc = "start"
    /\ model = MINI
    /\ output_dtype = "str"
    /\ trials = 1
    /\ trial_counter = 0
    /\ fail_counter = 0
    /\ votes = <<>>
    /\ majority = FALSE
    /\ calls = 0
    /\ pacing = NoPacing
    /\ decision = None
    /\ i = 0
    /\ problems_list = <<>>
    /\ model_dict = <<>>
    /\ result_dict = <<>>
    /\ prior \in PriorProblems(stage)
    /\ log = [data |-> <<>>, model |-> <<>>, problems |-> prior]
    /\ column \in IF stage \in {"ccp", "ltd"} THEN {0, NoneInt} ELSE {0}
    /\ has_section \in IF stage \in {"ccp", "ltd"} THEN BOOLEAN ELSE {TRUE}
    /\ IdleMain
    /\ asked = <<>>
    /\ tiers = <<>>

NextStage ==
    \/ StageStart
    \/ GptStep
    \/ IndexDecide
    \/ UnitsDecide
    \/ VdDecide
    \/ PathsDecide
    \/ SupervisorDecide

SpecStage == InitStage /\ [][NextStage]_vars

-----------------------------------------------------------------------------
(* get_forms_info: the batch a run works on *)

MaxForms == 3
MaxCalls == 2

\* the elements of a set of ints in ascending order
RECURSIVE SortedSeq(_)
SortedSeq(S) ==
    IF S = {} THEN <<>>
    ELSE LET m == CHOOSE x \in S : \A y \in S : x <= y
         IN  <<m>> \o SortedSeq(S \ {m})

\* seq[:n]
Take(seq, n) ==
    LET stop == IF n < 0 THEN Len(seq) + n ELSE n
    IN  SubSeq(seq, 1, IF stop < Len(seq) THEN (IF stop < 0 THEN 0 ELSE stop) ELSE Len(seq))

\* SELECT id FROM Forms WHERE id IN (RETRY_LIST): the rows in rowid order
retry_batch_as_listed(retry, ids) ==
    LET first(x) == CHOOSE k \in DOMAIN retry : retry[k] = x /\ \A j \in 1..(k - 1) : retry[j] # x
        listed == {x \in ids : \E k \in DOMAIN retry : retry[k] = x}
        Order[S \in SUBSET listed] ==
            IF S = {} THEN <<>>
            ELSE LET m == CHOOSE x \in S : \A y \in S : first(x) <= first(y)
                 IN  <<m>> \o Order[S \ {m}]
    IN  Order[listed]
retry_batch(retry, ids) ==
    SortedSeq({x \in ids : \E k \in DOMAIN retry : retry[k] = x})

\* the BATCH_SIZE the function leaves behind when RETRY_LIST is empty
new_batch_size_decrement(bsize, skip, first, n, remaining_count) ==
    IF bsize = NoneInt
    THEN (IF skip THEN remaining_count ELSE n - first + 1)
    ELSE IF skip THEN (IF bsize > remaining_count THEN remaining_count
                       ELSE IF bsize > 1 THEN bsize - 1 ELSE bsize)
    ELSE IF first + bsize > n THEN n - first + 1 ELSE bsize
new_batch_size(bsize, skip, first, n, remaining_count) ==
    IF bsize = NoneInt
    THEN (IF skip THEN remaining_count ELSE n - first + 1)
    ELSE IF skip THEN (IF bsize > remaining_count THEN remaining_count ELSE bsize)
    ELSE IF first + bsize > n THEN n - first + 1 ELSE bsize

\* SELECT id FROM Forms WHERE id >= first AND id < first + bsize
overwrite_batch_exclusive(first, bsize, ids) ==
    SortedSeq({x \in ids : x > first /\ x < first + bsize})
overwrite_batch(first, bsize, ids) ==
    SortedSeq({x \in ids : x >= first /\ x < first + bsize})

\* [form for form in form_ids if form not in existing][:BATCH_SIZE]
skip_batch_all(bsize, ids, ex) == Take(SortedSeq(ids), bsize)
skip_batch(bsize, ids, ex) == Take(SortedSeq(ids \ ex), bsize)

get_forms_info(retry, skip, first, bsize, ids, ex) ==
    IF retry # <<>>
    THEN [forms_info |-> retry_batch(retry, ids), BATCH_SIZE |-> Len(retry), raised |-> FALSE]
    ELSE IF ~skip /\ first > Cardinality(ids)
    THEN [forms_info |-> <<>>, BATCH_SIZE |-> bsize, raised |-> TRUE]
    ELSE LET remaining_count == Cardinality(ids) - Cardinality(ex)
             size == new_batch_size(bsize, skip, first, Cardinality(ids), remaining_count)
         IN  [forms_info |-> IF ~skip THEN overwrite_batch(first, size, ids)
                             ELSE skip_batch(size, ids, ex),
              BATCH_SIZE |-> size,
              raised |-> FALSE]

\* no stage runs
IdleTier ==
    /\ stage = "none"
    /\ caller = "none"
    /\ pc = "idle"
    /\ model = MINI
    /\ output_dtype = "str"
    /\ trials = 1
    /\ trial_counter = 0
    /\ fail_counter = 0
    /\ votes = <<>>
    /\ majority = FALSE
    /\ calls = 0
    /\ pacing = NoPacing
    /\ decision = None
    /\ IdleStage

\* the retry lists tried: none, one id, two ids out of order, a repeated id,
\* an id the Forms table does not hold
RetryLists == {<<>>, <<1>>, <<3, 1>>, <<2, 2>>, <<MaxForms + 1>>, <<2, MaxForms + 1>>}

InitSched ==
    /\ step \in {1, 2, 3}
    /\ IdleTier
    /\ \E n \in 0..MaxForms : form_ids = 1..n
    /\ existing \in SUBSET form_ids
    /\ RETRY_LIST \in RetryLists
    /\ SKIP_EXISTING \in BOOLEAN
    /\ FIRST_ROW_TO_OVERWRITE \in 1..(MaxForms + 1)
    /\ BATCH_SIZE \in {NoneInt} \cup 1..(MaxForms + 1)
    /\ returned = <<>>
    /\ IdleRun

\* forms_info = get_forms_info()
GetFormsInfo ==
    /\ Len(returned) < MaxCalls
    /\ returned # <<>> => ~returned[Len(returned)].raised
    /\ LET r == get_forms_info(RETRY_LIST, SKIP_EXISTING, FIRST_ROW_TO_OVERWRITE,
                               BATCH_SIZE, form_ids, existing)
       IN  /\ BATCH_SIZE' = r.BATCH_SIZE
           /\ returned' = Append(returned, [forms_info |-> r.forms_info, before |-> BATCH_SIZE,
                                            after |-> r.BATCH_SIZE, raised |-> r.raised])
    /\ UNCHANGED <<form_ids, existing, RETRY_LIST, SKIP_EXISTING, FIRST_ROW_TO_OVERWRITE>>
    /\ UNCHANGED <<step, stage, caller, pc, decision, gptVars, stageVars, runVars>>

NextSched == GetFormsInfo

SpecSched == InitSched /\ [][NextSched]_vars

-----------------------------------------------------------------------------
(* main of step 3: one run over a batch (SpecRun) *)

MaxRunForms == 2

\* a log entry whose data is None, or whose key is absent: read_from_json
\* raises KeyError on the path below it
NoData == -2

\* a negative int in a Tasks column
NegativeTask == -2

NoRow == [present |-> FALSE, previous |-> <<>>, ValueColumn |-> NoneInt, CCP |-> NoneInt, LTD |-> NoneInt]

NoLog == [present |-> FALSE, problems |-> <<>>, block_count |-> NoData, table_index |-> NoData,
          sum_divider |-> NoData, table_json_created |-> NoData,
          value_date_column |-> NoData, ccp_total_sum |-> NoData, ltd_total_sum |-> NoData]

NoSummary == [emitted |-> FALSE, form_cnt |-> 0, skipped |-> <<>>, with_problems |-> <<>>]

\* the operator has not been asked
NoAnswer == "<no input>"

\* what steps 1 and 2 (and an earlier run of step 3) left behind for a form:
\* ready for step 3 with sum_divider 1000 or 1, already processed by step 3,
\* a previous column NULL, a previous column negative, no Tasks row; the
\* kind "no_table" (used by the repeated runs below) is a form for which
\* step 2 found the units but got no table JSON: JsonTable = 0, no table file
ItemKinds == {"ready", "ready_units", "done", "null", "negative", "norow"}

\* Tasks columns before ValueColumn: block count, TableIndex, SumDivider, JsonTable
PreviousTasks(kind) ==
    CASE kind = "null" -> <<3, 1, NoneInt, NoneInt>>
      [] kind = "negative" -> <<3, NegativeTask, 1000, 1>>
      [] kind = "ready_units" -> <<3, 1, 1, 1>>
      [] kind = "no_table" -> <<3, 1, 1000, 0>>
      [] OTHER -> <<3, 1, 1000, 1>>

InitialRow(kind) ==
    CASE kind = "norow" -> NoRow
      [] kind = "done" -> [present |-> TRUE, previous |-> PreviousTasks(kind),
                           ValueColumn |-> 0, CCP |-> 12, LTD |-> 9]
      [] OTHER -> [present |-> TRUE, previous |-> PreviousTasks(kind),
                   ValueColumn |-> NoneInt, CCP |-> NoneInt, LTD |-> NoneInt]

InitialLog(kind) ==
    CASE kind = "norow" -> NoLog
      [] kind = "done" -> [present |-> TRUE, problems |-> <<ProblemSuspicious("ccp")>>,
                           block_count |-> 3, table_index |-> 1,
                           sum_divider |-> 1000, table_json_created |-> 1,
                           value_date_column |-> 0, ccp_total_sum |-> 12, ltd_total_sum |-> 9]
      [] OTHER -> [present |-> TRUE, problems |-> <<>>,
                   block_count |-> PreviousTasks(kind)[1], table_index |-> PreviousTasks(kind)[2],
                   sum_divider |-> PreviousTasks(kind)[3],
                   table_json_created |-> IF PreviousTasks(kind)[4] = 1 THEN 1 ELSE 0,
                   value_date_column |-> NoData, ccp_total_sum |-> NoData, ltd_total_sum |-> NoData]

InitialProblems(kind) == IF kind = "done" THEN <<ProblemSuspicious("ccp")>> ELSE <<>>

\* re.sub(r'(^[^:]*:[^:]*):.*', r'\1', problem)
problem_trunc(problem) ==
    CASE problem \in {ProblemBadPath("ccp", "1"), ProblemBadPath("ccp", "2")} -> "CCP: problematic dict path"
      [] problem \in {ProblemBadPath("ltd", "1"), ProblemBadPath("ltd", "2")} -> "LTD: problematic dict path"
      [] problem \in {ProblemMissingSum("ccp", "1"), ProblemMissingSum("ccp", "2")} -> "CCP: missing sum(s) detected"
      [] problem \in {ProblemMissingSum("ltd", "1"), ProblemMissingSum("ltd", "2")} -> "LTD: missing sum(s) detected"
      [] problem = ProblemTooShort -> "balance sheet: table text block too short"
      [] problem = ProblemIndexOutOfRange -> "balance sheet: table index out of range"
      [] problem = "CCP: negative sum(s) detected: index = 1" -> "CCP: negative sum(s) detected"
      [] OTHER -> problem

\* the Description column of the Problems table
Problems ==
    {"balance sheet: no text in file", "balance sheet: no table found in text block list",
     "balance sheet: table index out of range", "balance sheet: table text block too short",
     "pre-table comments: no comments found", "pre-table comments: extracted str too short",
     "units: sum reporting units not found", "units: sum reporting units not convertible to int",
     "units: sum reporting units out of range",
     "post-table text: content not found", "post-table text: content not str",
     "post-table text: no match to text block",
     "json output: model failed to produce table JSON", "json output: table not in dict form",
     "json output: table not in valid JSON format",
     "json output: not enough keys in balance sheet JSON",
     "value column: dates not returned as list",
     "CCP: assets not found in json table", "LTD: liabilities not found in json table",
     "CCP: key paths not found", "LTD: key paths not found",
     "CCP: dict paths not in dict format", "LTD: dict paths not in dict format",
     "CCP: problematic dict path", "LTD: problematic dict path",
     "CCP: suspicious key path(s) detected", "LTD: suspicious key path(s) detected",
     "CCP: missing sum(s) detected", "LTD: missing sum(s) detected"}

\* what the operator may type at the prompt of check_overwrite
Answers == {"y", "Y", " y ", "n", "yes", ""}

\* overwrite.strip().lower()
StripLower(s) ==
    CASE s \in {"Y", " y "} -> "y"
      [] OTHER -> s

\* check_overwrite returns (it calls sys.exit() otherwise)
overwrite_confirmed_always(s) == TRUE
overwrite_confirmed(s) == StripLower(s) = "y"

\* (not SKIP_EXISTING) or RETRY_LIST
Overwriting == ~SKIP_EXISTING \/ RETRY_LIST # <<>>

\* the int a user-defined variable is used as (True is 1, False is 0)
int_value(v) ==
    CASE v.form \in {"1", "True", "1.0"} -> 1
      [] v.form \in {"0", "False"} -> 0
      [] v.form \in {"2", "2.0"} -> 2
      [] OTHER -> NoneInt

\* isinstance(v, int): bool is a subclass of int
isinstance_int(v) == v.ty \in {"int", "bool"}

\* check_user_vars(): the exception it raises, "" if it returns
check_user_vars_unchecked_flag(vars_) ==
    IF \/ vars_.BATCH_SIZE # None /\ ~isinstance_int(vars_.BATCH_SIZE)
       \/ isinstance_int(vars_.BATCH_SIZE) /\ int_value(vars_.BATCH_SIZE) < 1
    THEN "ValueError"
    ELSE IF /\ vars_.SKIP_EXISTING.form \notin {"True", "1"}
            /\ ~isinstance_int(vars_.FIRST_ROW_TO_OVERWRITE) \/ int_value(vars_.FIRST_ROW_TO_OVERWRITE) < 1
    THEN "ValueError"
    ELSE ""
check_user_vars(vars_) ==
    IF \/ vars_.BATCH_SIZE # None /\ ~isinstance_int(vars_.BATCH_SIZE)
       \/ isinstance_int(vars_.BATCH_SIZE) /\ int_value(vars_.BATCH_SIZE) < 1
    THEN "ValueError"
    ELSE IF vars_.SKIP_EXISTING.ty # "bool"
    THEN "TypeError"
    ELSE IF /\ vars_.SKIP_EXISTING.form # "True"
            /\ ~isinstance_int(vars_.FIRST_ROW_TO_OVERWRITE) \/ int_value(vars_.FIRST_ROW_TO_OVERWRITE) < 1
    THEN "ValueError"
    ELSE ""

\* the user-defined variables of the runs: RETRY_LIST, SKIP_EXISTING,
\* FIRST_ROW_TO_OVERWRITE, BATCH_SIZE; the first five are well-formed
UserVars ==
    {<<<<>>, PyVal("bool", "True"), PyVal("int", "1"), None>>,
     <<<<>>, PyVal("bool", "False"), PyVal("int", "1"), None>>,
     <<<<>>, PyVal("bool", "False"), PyVal("int", "2"), PyVal("int", "1")>>,
     <<<<2, 1>>, PyVal("bool", "True"), PyVal("int", "1"), None>>,
     <<<<>>, PyVal("bool", "True"), PyVal("int", "1"), PyVal("bool", "True")>>,
     <<<<>>, PyVal("bool", "True"), PyVal("int", "1"), PyVal("int", "0")>>,
     <<<<>>, PyVal("bool", "True"), PyVal("int", "1"), PyVal("float", "2.0")>>,
     <<<<>>, PyVal("bool", "True"), PyVal("int", "1"), PyVal("str", "2")>>,
     <<<<>>, PyVal("int", "1"), PyVal("int", "1"), None>>,
     <<<<>>, PyVal("int", "0"), PyVal("int", "1"), None>>,
     <<<<>>, PyVal("bool", "False"), PyVal("int", "0"), None>>,
     <<<<>>, PyVal("bool", "False"), PyVal("float", "1.0"), None>>}

\* check_previous_tasks: the condition under which a form is listed
tasks_incomplete_none_only(row) ==
    \/ ~row.present
    \/ \E k \in DOMAIN row.previous : row.previous[k] = NoneInt
tasks_incomplete(row) ==
    \/ ~row.present
    \/ \E k \in DOMAIN row.previous : row.previous[k] = NoneInt
    \/ \E k \in DOMAIN row.previous : row.previous[k] # NoneInt /\ row.previous[k] < 0

check_previous_tasks(batch, T) == SelectSeq(batch, LAMBDA f : tasks_incomplete(T[f]))

\* SELECT Form_id FROM Tasks WHERE LTD IS NOT NULL
ExistingOf(T) == {f \in DOMAIN T : T[f].present /\ T[f].LTD # NoneInt}

\* the decisions count_votes hands to the stages of one run: an accepted one
\* and a rejected one per stage (for LTD with two paths that are not in the
\* table); none of the paths is suspect, so that the supervisor is not asked
RunVdDecisions == {PyVal("list", "[20231231, 20221231]"), None}
RunCcpDecisions == {PyVal("dict", "{'1': ['Current assets', 'Cash']}"), PyVal("dict", "{'1': ['Bogus']}")}
RunLtdDecisions == {PyVal("dict", "{'1': ['Long-term debt']}"), PyVal("dict", "{'1': ['Bogus'], '2': ['Other']}")}
RunDecisions(stg) == IF stg = "ccp" THEN RunCcpDecisions ELSE RunLtdDecisions

\* how an ask_* call of a stage ends: it returns votes, gpt_completion raises
\* Exception after GPT_ATTEMPTS failures, or it re-raises RateLimitError
OracleOutcomes == {"returned", "Exception", "RateLimitError"}

\* get_vd_column with the decisions of the two tiers: the logged column and
\* the problems appended to the log
vd_column_result(d1, d2) ==
    IF d1.ty = "list" /\ valid_result(<<>>) THEN [value_date_column |-> vd_index(d1), problems |-> <<>>]
    ELSE IF d2.ty = "list" THEN [value_date_column |-> vd_index(d2), problems |-> <<>>]
    ELSE [value_date_column |-> NoneInt, problems |-> new_problems_list(<<ProblemNotList>>) \o <<ProblemNotList>>]

\* one pass through the loop body of get_ccp / get_ltd with the tier's
\* decision dec and the supervisor's decision sdec (used when asked)
paths_pass(stg, col, dec, sdec) ==
    IF IsNullDecision(dec)
    THEN [validated |-> FALSE, problems |-> <<ProblemNotFound(stg)>>, total_sum |-> NoneInt]
    ELSE IF dec.ty # "dict"
    THEN [validated |-> FALSE, problems |-> <<ProblemNotDict(stg)>>, total_sum |-> NoneInt]
    ELSE LET decided == DictContent(dec.form)
             invalid_dict_paths == check_dict_paths(decided, stg)
         IN  IF invalid_dict_paths # <<>>
             THEN [validated |-> FALSE,
                   problems |-> [n \in DOMAIN invalid_dict_paths |-> ProblemBadPath(stg, invalid_dict_paths[n])],
                   total_sum |-> NoneInt]
             ELSE LET suspect == suspect_terms(stg, decided)
                      dict_paths == IF suspect /\ supervisor_valid(sdec)
                                    THEN remove_keys(decided, sdec) ELSE decided
                      problems0 == IF suspect /\ ~supervisor_valid(sdec)
                                   THEN <<ProblemSuspicious(stg)>> ELSE <<>>
                      path_sums == get_sums_per_key_paths(dict_paths, stg, col)
                  IN  [validated |-> TRUE,
                       problems |-> problems0 \o MissingSumProblems(stg, path_sums),
                       total_sum |-> SumOf(path_sums, 1)]

\* get_ccp / get_ltd when the section was found, with the decisions of the
\* two tiers: the logged total_sum and the problems appended to the log
paths_result(stg, col, d1, s1, d2, s2) ==
    LET p1 == paths_pass(stg, col, d1, s1)
        p2 == paths_pass(stg, col, d2, s2)
    IN  IF valid_result(p1.problems) THEN [total_sum |-> p1.total_sum, problems |-> <<>>]
        ELSE [total_sum |-> IF p2.validated THEN p2.total_sum ELSE p1.total_sum,
              problems |-> new_problems_list(p1.problems) \o p2.problems]

\* round(total / sum_divider, 3), in thousandths (sum_divider is 1 or 1000)
round3(total, sum_divider) == (total * 1000) \div sum_divider

\* report_done(forms_with_problems, start_time, forms_examined, previous_tasks_incomplete)
report_done(with_problems, form_cnt, incomplete) ==
    [emitted |-> TRUE, form_cnt |-> form_cnt - Len(incomplete),
     skipped |-> incomplete, with_problems |-> with_problems]

\* the state in which main of step 3 starts, with forms of the given kinds
\* and user variables from the given set
InitForms(Kinds, Vars) ==
    /\ step = 3
    /\ IdleTier
    /\ \E n \in 0..MaxRunForms : form_ids = 1..n
    /\ \E kinds \in [form_ids -> Kinds] :
          /\ Tasks = [f \in form_ids |-> InitialRow(kinds[f])]
          /\ logs = [f \in form_ids |-> InitialLog(kinds[f])]
          /\ FormProblems = [f \in form_ids |-> InitialProblems(kinds[f])]
    /\ existing = ExistingOf(Tasks)
    /\ \E cfg \in Vars :
          /\ RETRY_LIST = cfg[1]
          /\ SKIP_EXISTING = (cfg[2].form \in {"True", "1"})
          /\ FIRST_ROW_TO_OVERWRITE = int_value(cfg[3])
          /\ BATCH_SIZE = int_value(cfg[4])
          /\ settings = [SKIP_EXISTING |-> cfg[2], FIRST_ROW_TO_OVERWRITE |-> cfg[3],
                         BATCH_SIZE |-> cfg[4]]
    /\ initial = [Tasks |-> Tasks, FormProblems |-> FormProblems, logs |-> logs]
    /\ returned = <<>>
    /\ run_pc = "start"
    /\ forms_info = <<>>
    /\ form_i = 0
    /\ previous_tasks_incomplete = <<>>
    /\ forms_with_problems = <<>>
    /\ summary = NoSummary
    /\ exit_kind = "none"
    /\ error = ""
    /\ overwrite = NoAnswer
    /\ retry_input = NoAnswer
    /\ oracle_for = {}
    /\ log_written = {}
    /\ ledger_written = {}
    /\ attempt_problems = [f \in form_ids |-> <<>>]
    /\ written_before = <<>>

InitRun == InitForms(ItemKinds, UserVars)

tierIdle == <<step, stage, caller, pc, decision, gptVars, stageVars>>
userVars == <<form_ids, RETRY_LIST, SKIP_EXISTING, FIRST_ROW_TO_OVERWRITE, returned, settings, initial,
              written_before>>

\* the except clauses and the finally clause of main: the run ends, and
\* report_done is called if forms_examined = i > 0
Terminate(kind, err) ==
    /\ run_pc' = "ended"
    /\ exit_kind' = kind
    /\ error' = err
    /\ summary' = IF form_i > 0
                  THEN report_done(forms_with_problems', form_i, previous_tasks_incomplete')
                  ELSE NoSummary

\* main after check_overwrite: sys.exit() on an empty batch, otherwise
\* check_previous_tasks and the loop
EnterLoop_always(batch) ==
    /\ previous_tasks_incomplete' = check_previous_tasks(batch, Tasks)
    /\ run_pc' = "loop"
    /\ UNCHANGED <<forms_with_problems, summary, exit_kind, error>>
EnterLoop(batch) ==
    IF batch = <<>>
    THEN /\ UNCHANGED <<previous_tasks_incomplete, forms_with_problems>>
         /\ Terminate("empty", "SystemExit")
    ELSE /\ previous_tasks_incomplete' = check_previous_tasks(batch, Tasks)
         /\ run_pc' = "loop"
         /\ UNCHANGED <<forms_with_problems, summary, exit_kind, error>>

\* main: check_user_vars, get_forms_info, up to the prompt of check_overwrite
\* (overwrite or retry mode) or up to the loop
RunStart ==
    /\ run_pc = "start"
    /\ LET raised == check_user_vars(settings)
           r == get_forms_info(RETRY_LIST, SKIP_EXISTING, FIRST_ROW_TO_OVERWRITE,
                               BATCH_SIZE, form_ids, existing)
       IN  IF raised # ""
           THEN /\ UNCHANGED <<BATCH_SIZE, forms_info, previous_tasks_incomplete, forms_with_problems>>
                /\ Terminate("error", raised)
           ELSE IF r.raised
           THEN /\ UNCHANGED <<BATCH_SIZE, forms_info, previous_tasks_incomplete, forms_with_problems>>
                /\ Terminate("error", "ValueError")
           ELSE /\ BATCH_SIZE' = r.BATCH_SIZE
                /\ forms_info' = r.forms_info
                /\ IF Overwriting
                   THEN /\ run_pc' = "confirm"
                        /\ UNCHANGED <<previous_tasks_incomplete, forms_with_problems, summary,
                                       exit_kind, error>>
                   ELSE EnterLoop(r.forms_info)
    /\ UNCHANGED <<form_i, overwrite, retry_input, Tasks, FormProblems, logs, existing,
                   oracle_for, log_written, ledger_written, attempt_problems>>
    /\ UNCHANGED <<tierIdle, userVars>>

\* check_overwrite after input() returned, and main up to the loop
CheckOverwrite ==
    /\ run_pc = "confirm"
    /\ \E typed \in Answers :
          /\ overwrite' = typed
          /\ IF overwrite_confirmed(typed)
             THEN EnterLoop(forms_info)
             ELSE /\ UNCHANGED <<previous_tasks_incomplete, forms_with_problems>>
                  /\ Terminate("declined", "SystemExit")
    /\ UNCHANGED <<BATCH_SIZE, forms_info, form_i, retry_input, Tasks, FormProblems, logs, existing,
                   oracle_for, log_written, ledger_written, attempt_problems>>
    /\ UNCHANGED <<tierIdle, userVars>>

\* the form the loop is at
Form == forms_info[form_i + 1]

\* reset_problems(log_path): data['problems']['data'] = None
reset_problems_kept(lg) == lg
reset_problems(lg) == [lg EXCEPT !.problems = <<>>]

\* init_new_log_entries(log_path): the entries of this step, with data None
init_new_log_entries(lg) ==
    [lg EXCEPT !.value_date_column = NoData, !.ccp_total_sum = NoData, !.ltd_total_sum = NoData]

\* the top of the loop body up to get_vd_column, or the end of the loop
LoopBody ==
    /\ run_pc = "loop"
    /\ UNCHANGED <<BATCH_SIZE, forms_info, overwrite, retry_input, Tasks, FormProblems, existing,
                   forms_with_problems, oracle_for, ledger_written, attempt_problems>>
    /\ UNCHANGED <<tierIdle, userVars>>
    /\ IF form_i >= Len(forms_info)
       THEN /\ run_pc' = "ended"
            /\ exit_kind' = "normal"
            /\ summary' = report_done(forms_with_problems, Len(forms_info), previous_tasks_incomplete)
            /\ UNCHANGED <<form_i, previous_tasks_incomplete, logs, log_written, error>>
       ELSE IF \E k \in DOMAIN previous_tasks_incomplete : previous_tasks_incomplete[k] = Form
       THEN /\ form_i' = form_i + 1
            /\ UNCHANGED <<run_pc, previous_tasks_incomplete, logs, log_written, summary,
                           exit_kind, error>>
       ELSE IF ~logs[Form].present
       THEN /\ previous_tasks_incomplete' = Append(previous_tasks_incomplete, Form)
            /\ form_i' = form_i + 1
            /\ UNCHANGED <<run_pc, logs, log_written, summary, exit_kind, error>>
       ELSE /\ logs' = [logs EXCEPT ![Form] =
                            init_new_log_entries(IF Overwriting THEN reset_problems(@) ELSE @)]
            /\ log_written' = log_written \cup {Form}
            /\ run_pc' = "vd"
            /\ UNCHANGED <<form_i, previous_tasks_incomplete, summary, exit_kind, error>>

\* a stage of the loop body ends with an exception of gpt_completion: it
\* reaches the except clauses of main
OracleRaises_item_retried(err) ==
    /\ oracle_for' = oracle_for \cup {Form}
    /\ error' = err
    /\ run_pc' = "loop"
    /\ UNCHANGED <<logs, log_written, summary, exit_kind, attempt_problems>>
OracleRaises(err) ==
    /\ oracle_for' = oracle_for \cup {Form}
    /\ Terminate("error", err)
    /\ UNCHANGED <<logs, log_written, attempt_problems>>

\* the table file of a form: get_table_json of step 2 writes it in the pass
\* that sets table_json_created
table_file_exists(lg) == lg.table_json_created = 1

\* get_vd_column(log_path, table_path, form_name)
GetVdColumn ==
    /\ run_pc = "vd"
    /\ UNCHANGED <<BATCH_SIZE, forms_info, form_i, overwrite, retry_input, Tasks, FormProblems, existing,
                   previous_tasks_incomplete, forms_with_problems, ledger_written>>
    /\ UNCHANGED <<tierIdle, userVars>>
    /\ IF ~table_file_exists(logs[Form])
       THEN \* get_num_columns: open(table_path, 'r') raises before any ask_* call
            /\ Terminate("error", "FileNotFoundError")
            /\ UNCHANGED <<logs, log_written, attempt_problems, oracle_for>>
       ELSE
       \E outcome \in OracleOutcomes :
          IF outcome # "returned" THEN OracleRaises(outcome)
          ELSE \E d1 \in RunVdDecisions, d2 \in RunVdDecisions :
                  LET r == vd_column_result(d1, d2)
                  IN  /\ logs' = [logs EXCEPT ![Form] =
                                    [@ EXCEPT !.value_date_column = r.value_date_column,
                                              !.problems = Dedup(@ \o r.problems)]]
                      /\ attempt_problems' = [attempt_problems EXCEPT ![Form] = Dedup(@ \o r.problems)]
                      /\ log_written' = log_written \cup {Form}
                      /\ oracle_for' = oracle_for \cup {Form}
                      /\ run_pc' = "ccp"
                      /\ UNCHANGED <<summary, exit_kind, error>>

\* get_ccp / get_ltd(log_path, table_path, form_name)
GetPaths(stg, next_pc) ==
    /\ UNCHANGED <<BATCH_SIZE, forms_info, form_i, overwrite, retry_input, Tasks, FormProblems, existing,
                   previous_tasks_incomplete, forms_with_problems, ledger_written>>
    /\ UNCHANGED <<tierIdle, userVars>>
    /\ \/ \* the section is not in the table: only the problem is logged
          /\ logs' = [logs EXCEPT ![Form] =
                        [@ EXCEPT !.problems = Dedup(@ \o <<ProblemSectionMissing(stg)>>)]]
          /\ attempt_problems' = [attempt_problems EXCEPT ![Form] =
                                    Dedup(@ \o <<ProblemSectionMissing(stg)>>)]
          /\ log_written' = log_written \cup {Form}
          /\ run_pc' = next_pc
          /\ UNCHANGED <<oracle_for, summary, exit_kind, error>>
       \/ \E outcome \in OracleOutcomes :
             IF outcome # "returned" THEN OracleRaises(outcome)
             ELSE \E d1 \in RunDecisions(stg), d2 \in RunDecisions(stg) :
                     LET r == paths_result(stg, logs[Form].value_date_column, d1, None, d2, None)
                     IN  /\ logs' = [logs EXCEPT ![Form] =
                                       IF stg = "ccp"
                                       THEN [@ EXCEPT !.ccp_total_sum = r.total_sum,
                                                      !.problems = Dedup(@ \o r.problems)]
                                       ELSE [@ EXCEPT !.ltd_total_sum = r.total_sum,
                                                      !.problems = Dedup(@ \o r.problems)]]
                         /\ attempt_problems' = [attempt_problems EXCEPT ![Form] = Dedup(@ \o r.problems)]
                         /\ log_written' = log_written \cup {Form}
                         /\ oracle_for' = oracle_for \cup {Form}
                         /\ run_pc' = next_pc
                         /\ UNCHANGED <<summary, exit_kind, error>>

GetCcp == run_pc = "ccp" /\ GetPaths("ccp", "ltd")

GetLtd == run_pc = "ltd" /\ GetPaths("ltd", "sql")

\* get_balance_problems(log_path): the Problems.id of every logged
\* description in log order (an id is written as its Description), or that
\* ValueError is raised
get_balance_problems_registered_only(lg) ==
    LET problem_ids == [k \in DOMAIN lg.problems |-> problem_trunc(lg.problems[k])]
    IN  [raised |-> FALSE, problem_ids |-> SelectSeq(problem_ids, LAMBDA d : d \in Problems)]
get_balance_problems(lg) ==
    LET problem_ids == [k \in DOMAIN lg.problems |-> problem_trunc(lg.problems[k])]
    IN  [raised |-> \E k \in DOMAIN problem_ids : problem_ids[k] \notin Problems,
         problem_ids |-> problem_ids]

\* the reads of update_sql before its loop: the exception read_from_json or
\* the division raises ("" if none) and the values for the Tasks row
update_sql_reads(st, lg) ==
    CASE st = 1 ->
            IF NoData \in {lg.block_count, lg.table_index}
            THEN [raised |-> "KeyError", values |-> <<>>]
            ELSE [raised |-> "", values |-> <<lg.block_count, lg.table_index>>]
      [] st = 2 ->
            IF NoData \in {lg.sum_divider, lg.table_json_created}
            THEN [raised |-> "KeyError", values |-> <<>>]
            ELSE [raised |-> "", values |-> <<lg.sum_divider, IF lg.table_json_created = 1 THEN 1 ELSE 0>>]
      [] st = 3 ->
            IF NoData \in {lg.sum_divider, lg.value_date_column, lg.ccp_total_sum, lg.ltd_total_sum}
            THEN [raised |-> "KeyError", values |-> <<>>]
            ELSE IF lg.value_date_column = NoneInt
            THEN [raised |-> "", values |-> <<NoneInt, NoneInt, NoneInt>>]
            ELSE IF lg.sum_divider # 1
            THEN IF lg.sum_divider = NoneInt \/ lg.ccp_total_sum = NoneInt \/ lg.ltd_total_sum = NoneInt
                 THEN [raised |-> "TypeError", values |-> <<>>]
                 ELSE [raised |-> "",
                       values |-> <<lg.value_date_column, round3(lg.ccp_total_sum, lg.sum_divider),
                                    round3(lg.ltd_total_sum, lg.sum_divider)>>]
            ELSE [raised |-> "",
                  values |-> <<lg.value_date_column,
                               IF lg.ccp_total_sum = NoneInt THEN NoneInt ELSE round3(lg.ccp_total_sum, 1),
                               IF lg.ltd_total_sum = NoneInt THEN NoneInt ELSE round3(lg.ltd_total_sum, 1)>>]

\* the Tasks row after the statements of update_sql on Tasks: step 1 deletes
\* (when overwriting) and inserts the row, steps 2 and 3 update their columns
update_tasks_whole_row(st, row, values) ==
    CASE st = 1 -> [present |-> TRUE, previous |-> values,
                    ValueColumn |-> NoneInt, CCP |-> NoneInt, LTD |-> NoneInt]
      [] st = 2 -> [present |-> TRUE, previous |-> <<NoneInt, NoneInt, values[1], values[2]>>,
                    ValueColumn |-> NoneInt, CCP |-> NoneInt, LTD |-> NoneInt]
      [] st = 3 -> [present |-> TRUE, previous |-> <<NoneInt, NoneInt, NoneInt, NoneInt>>,
                    ValueColumn |-> values[1], CCP |-> values[2], LTD |-> values[3]]
update_tasks(st, row, values) ==
    CASE st = 1 -> [present |-> TRUE, previous |-> values,
                    ValueColumn |-> NoneInt, CCP |-> NoneInt, LTD |-> NoneInt]
      [] st = 2 -> IF row.present
                   THEN [row EXCEPT !.previous = <<@[1], @[2], values[1], values[2]>>]
                   ELSE row
      [] st = 3 -> IF row.present
                   THEN [row EXCEPT !.ValueColumn = values[1], !.CCP = values[2], !.LTD = values[3]]
                   ELSE row

\* FormProblems has one row per (Form_id, Problem_id): a second row with
\* the same pair violates the key
FormProblemsConflict(rows, problem_id) == \E k \in DOMAIN rows : rows[k] = problem_id

\* the INSERT statement of update_sql has the OR IGNORE clause in step 3 only
insert_or_ignore(st) == st = 3

\* for problem_id in problem_ids: cur.execute("INSERT [OR IGNORE] INTO
\* FormProblems VALUES (?, ?)"): the rows, or that IntegrityError is raised
RECURSIVE insert_problems(_, _, _)
insert_problems(st, rows, problem_ids) ==
    IF problem_ids = <<>> THEN [raised |-> FALSE, rows |-> rows]
    ELSE IF FormProblemsConflict(rows, Head(problem_ids))
    THEN IF insert_or_ignore(st)
         THEN insert_problems(st, rows, Tail(problem_ids))
         ELSE [raised |-> TRUE, rows |-> rows]
    ELSE insert_problems(st, Append(rows, Head(problem_ids)), Tail(problem_ids))

\* how one pass through the loop of update_sql ends: the transaction
\* commits, sqlite3 reports "database is locked", or another OperationalError
SqlOutcomes == {"commit", "database is locked", "OperationalError"}

\* what the operator may type at the prompt of update_sql
LockAnswers == {"", "Q", " q "}

\* retry.upper() after input(...).strip()
StripUpper(s) ==
    CASE s \in {"Q", " q "} -> "Q"
      [] OTHER -> s

\* the handler of "database is locked" after input() returned: sys.exit(),
\* or continue with the next pass of the loop
on_locked_gives_up(typed) == IF StripUpper(typed) = "Q" THEN "exit" ELSE "break"
on_locked(typed) == IF StripUpper(typed) = "Q" THEN "exit" ELSE "continue"

\* an exception leaves update_sql (or get_balance_problems): the
\* transaction is rolled back and main ends
SqlRaise(kind, err) ==
    /\ Terminate(kind, err)
    /\ retry_input' = NoAnswer
    /\ UNCHANGED <<form_i, Tasks, FormProblems, existing, ledger_written>>

\* update_sql returns and the loop of main goes on with the next form
SqlReturn ==
    /\ form_i' = form_i + 1
    /\ run_pc' = "loop"
    /\ retry_input' = NoAnswer
    /\ UNCHANGED <<summary, exit_kind, error>>

\* one pass through the while loop of update_sql, typed being the last
\* answer of the operator
SqlPass(typed) ==
    LET lg == logs[Form]
        values == update_sql_reads(step, lg).values
        problem_ids == get_balance_problems(lg).problem_ids
        inserted == insert_problems(step, IF Overwriting THEN <<>> ELSE FormProblems[Form], problem_ids)
    IN  \E outcome \in SqlOutcomes :
           CASE outcome = "commit" ->
                   IF inserted.raised
                   THEN SqlRaise("error", "IntegrityError")
                   ELSE /\ Tasks' = [Tasks EXCEPT ![Form] = update_tasks(step, @, values)]
                        /\ FormProblems' = [FormProblems EXCEPT ![Form] = inserted.rows]
                        /\ existing' = ExistingOf(Tasks')
                        /\ ledger_written' = ledger_written \cup {Form}
                        /\ SqlReturn
             [] outcome = "database is locked" ->
                   /\ run_pc' = "locked"
                   /\ retry_input' = typed
                   /\ UNCHANGED <<form_i, Tasks, FormProblems, existing, ledger_written,
                                  summary, exit_kind, error>>
             [] outcome = "OperationalError" ->
                   SqlRaise("error", "OperationalError")

\* get_balance_problems(log_path), forms_with_problems.append, and
\* update_sql(form_id, log_path, sql_problem_ids) up to the end of the first
\* pass through its loop
UpdateSql ==
    /\ run_pc = "sql"
    /\ UNCHANGED <<BATCH_SIZE, forms_info, overwrite, previous_tasks_incomplete, logs,
                   oracle_for, log_written, attempt_problems>>
    /\ UNCHANGED <<tierIdle, userVars>>
    /\ LET sql_problem_ids == get_balance_problems(logs[Form])
           reads == update_sql_reads(step, logs[Form])
       IN  IF sql_problem_ids.raised
           THEN /\ UNCHANGED forms_with_problems
                /\ SqlRaise("error", "ValueError")
           ELSE /\ forms_with_problems' = IF sql_problem_ids.problem_ids # <<>>
                                          THEN Append(forms_with_problems, Form)
                                          ELSE forms_with_problems
                /\ IF reads.raised # ""
                   THEN SqlRaise("error", reads.raised)
                   ELSE SqlPass(NoAnswer)

\* the prompt of update_sql after "database is locked", and the next pass
LockedPrompt ==
    /\ run_pc = "locked"
    /\ UNCHANGED <<BATCH_SIZE, forms_info, overwrite, previous_tasks_incomplete, forms_with_problems,
                   logs, oracle_for, log_written, attempt_problems>>
    /\ UNCHANGED <<tierIdle, userVars>>
    /\ \E typed \in LockAnswers :
          CASE on_locked(typed) = "exit" -> SqlRaise("quit", "SystemExit")
            [] on_locked(typed) = "continue" -> SqlPass(typed)
            [] OTHER -> \* the loop is left
                  /\ SqlReturn
                  /\ UNCHANGED <<Tasks, FormProblems, existing, ledger_written>>

\* the operator presses Ctrl-C while main handles a form or waits at a
\* prompt: except KeyboardInterrupt, then finally
KeyboardInterrupt ==
    /\ \/ run_pc \in {"confirm", "vd", "ccp", "ltd", "sql", "locked"}
       \/ run_pc = "loop" /\ form_i < Len(forms_info)
    /\ UNCHANGED <<BATCH_SIZE, forms_info, form_i, overwrite, Tasks, FormProblems, logs, existing,
                   previous_tasks_incomplete, forms_with_problems, oracle_for, log_written,
                   ledger_written, attempt_problems>>
    /\ retry_input' = NoAnswer
    /\ Terminate("interrupt", "KeyboardInterrupt")
    /\ UNCHANGED <<tierIdle, userVars>>

NextRun ==
    \/ RunStart
    \/ CheckOverwrite
    \/ LoopBody
    \/ GetVdColumn
    \/ GetCcp
    \/ GetLtd
    \/ UpdateSql
    \/ LockedPrompt
    \/ KeyboardInterrupt

SpecRun == InitRun /\ [][NextRun]_vars

-----------------------------------------------------------------------------
(* Step 3 run again and again in skip-existing mode on the same ledger *)

\* the number of runs
MaxRuns == 2

\* forms ready for step 3, forms with a NULL previous column, and forms for
\* which step 2 created no table JSON
AgainKinds == {"ready", "null", "no_table"}

\* SKIP_EXISTING = True with BATCH_SIZE None or 1
AgainVars ==
    {<<<<>>, PyVal("bool", "True"), PyVal("int", "1"), None>>,
     <<<<>>, PyVal("bool", "True"), PyVal("int", "1"), PyVal("int", "1")>>}

InitAgain == InitForms(AgainKinds, AgainVars)

\* the script is started again after a run has ended: the globals have the
\* values written in the script, the ledger and the logs are as the ended
\* run left them
RunAgain ==
    /\ run_pc = "ended"
    /\ Len(written_before) + 1 < MaxRuns
    /\ run_pc' = "start"
    /\ BATCH_SIZE' = int_value(settings.BATCH_SIZE)
    /\ existing' = ExistingOf(Tasks)
    /\ forms_info' = <<>>
    /\ form_i' = 0
    /\ previous_tasks_incomplete' = <<>>
    /\ forms_with_problems' = <<>>
    /\ summary' = NoSummary
    /\ exit_kind' = "none"
    /\ error' = ""
    /\ overwrite' = NoAnswer
    /\ retry_input' = NoAnswer
    /\ oracle_for' = {}
    /\ log_written' = {}
    /\ ledger_written' = {}
    /\ attempt_problems' = [f \in form_ids |-> <<>>]
    /\ written_before' = Append(written_before, ledger_written)
    /\ UNCHANGED <<Tasks, FormProblems, logs, form_ids, RETRY_LIST, SKIP_EXISTING,
                   FIRST_ROW_TO_OVERWRITE, returned, settings, initial>>
    /\ UNCHANGED tierIdle

NextAgain ==
    \/ RunStart
    \/ LoopBody
    \/ GetVdColumn
    \/ GetCcp
    \/ GetLtd
    \/ UpdateSql
    \/ LockedPrompt
    \/ KeyboardInterrupt
    \/ RunAgain

SpecAgain == InitAgain /\ [][NextAgain]_vars

-----------------------------------------------------------------------------
(* The end of the loop body of main in the three steps: *)
(* get_balance_problems and update_sql on one form (SpecLedger)     *)

\* a problem step 2 logs
ProblemPostTable == "post-table text: content not found"

\* a description the Problems table has no row for
DriftedProblem == "CCP: negative sum(s) detected: index = 1"

\* the problem lists the earlier steps may have logged and stored for the
\* form (step 1 logs ProblemTooShort with a table index that is in range)
EarlierProblems(st) == IF st = 1 THEN {<<>>} ELSE {<<>>, <<ProblemTooShort>>}

\* the problem lists the stages of this attempt may have logged
FreshProblems(st) ==
    CASE st = 1 -> {<<>>, <<ProblemTooShort>>}
      [] st = 2 -> {<<>>, <<ProblemPostTable>>, <<DriftedProblem>>}
      [] st = 3 -> {<<>>, <<ProblemNotList>>, <<ProblemSuspicious("ccp")>>,
                    <<ProblemBadPath("ltd", "1"), ProblemBadPath("ltd", "2")>>,
                    <<DriftedProblem>>}

\* the FormProblems rows an earlier attempt of the same step may have left
OldRows(st) ==
    CASE st = 1 -> {<<>>, <<problem_trunc(ProblemTooShort)>>}
      [] st = 2 -> {<<>>, <<problem_trunc(ProblemPostTable)>>}
      [] st = 3 -> {<<>>, <<problem_trunc(ProblemSuspicious("ccp"))>>}

\* the Tasks row of the form when update_sql of the step is called
LedgerRow(st, overwriting) ==
    CASE st = 1 -> IF overwriting
                   THEN [present |-> TRUE, previous |-> <<3, 1>>,
                         ValueColumn |-> NoneInt, CCP |-> NoneInt, LTD |-> NoneInt]
                   ELSE NoRow
      [] st = 2 -> [present |-> TRUE,
                    previous |-> IF overwriting THEN <<3, 1, 1000, 1>> ELSE <<3, 1, NoneInt, NoneInt>>,
                    ValueColumn |-> NoneInt, CCP |-> NoneInt, LTD |-> NoneInt]
      [] st = 3 -> IF overwriting THEN InitialRow("done") ELSE InitialRow("ready")

\* the log of the form when update_sql of the step is called: the stages
\* logged their data (complete) or left an entry without data
LedgerLog(st, problems, complete) ==
    [present |-> TRUE, problems |-> problems,
     block_count |-> 3,
     table_index |-> IF st = 1 /\ ~complete THEN NoData ELSE 1,
     sum_divider |-> IF st = 1 \/ (st = 2 /\ ~complete) THEN NoData ELSE 1000,
     table_json_created |-> IF st = 1 THEN NoData ELSE 1,
     value_date_column |-> IF st = 3 THEN 0 ELSE NoData,
     ccp_total_sum |-> IF st = 3 THEN 5 ELSE NoData,
     ltd_total_sum |-> IF st = 3 /\ complete THEN 9 ELSE NoData]

RECURSIVE TruncAll(_)
TruncAll(problems) ==
    IF problems = <<>> THEN <<>>
    ELSE <<problem_trunc(Head(problems))>> \o TruncAll(Tail(problems))

InitLedger ==
    /\ step \in {1, 2, 3}
    /\ IdleTier
    /\ form_ids = {1, 2}   \* form 2 is in the same state as form 1 and not in the batch
    /\ \E mode \in {<<TRUE, <<>>>>, <<FALSE, <<>>>>, <<TRUE, <<1>>>>} :
          /\ SKIP_EXISTING = mode[1]
          /\ RETRY_LIST = mode[2]
          /\ settings = [SKIP_EXISTING |-> PyVal("bool", IF mode[1] THEN "True" ELSE "False"),
                         FIRST_ROW_TO_OVERWRITE |-> PyVal("int", "1"),
                         BATCH_SIZE |-> None]
    /\ FIRST_ROW_TO_OVERWRITE = 1
    /\ BATCH_SIZE = 1
    /\ overwrite = IF Overwriting THEN "y" ELSE NoAnswer
    /\ \E earlier \in EarlierProblems(step), fresh \in FreshProblems(step),
          old \in OldRows(step), complete \in BOOLEAN :
          /\ Overwriting \/ old = <<>>
          /\ Tasks = [f \in form_ids |-> LedgerRow(step, Overwriting)]
          /\ logs = [f \in form_ids |->
                        LedgerLog(step, IF Overwriting THEN fresh ELSE Dedup(earlier \o fresh), complete)]
          /\ FormProblems = [f \in form_ids |-> Dedup(TruncAll(earlier) \o old)]
          /\ attempt_problems = [f \in form_ids |-> fresh]
    /\ existing = ExistingOf(Tasks)
    /\ initial = [Tasks |-> Tasks, FormProblems |-> FormProblems, logs |-> logs]
    /\ returned = <<>>
    /\ run_pc = "sql"
    /\ forms_info = <<1>>
    /\ form_i = 0
    /\ previous_tasks_incomplete = <<>>
    /\ forms_with_problems = <<>>
    /\ summary = NoSummary
    /\ exit_kind = "none"
    /\ error = ""
    /\ retry_input = NoAnswer
    /\ oracle_for = {}
    /\ log_written = {1}
    /\ ledger_written = {}
    /\ written_before = <<>>

NextLedger ==
    \/ UpdateSql
    \/ LockedPrompt
    \/ KeyboardInterrupt

SpecLedger == InitLedger /\ [][NextLedger]_vars

-----------------------------------------------------------------------------
(* The trial loops of step 2: get_table_body and get_table_json (SpecTable) *)

\* "max_mini_trials = 3": maximum number of trials using the mini model
max_mini_trials == 3

\* "model, trials, trial_counter = (MINI, i, i) if i < max_mini_trials else
\* (GPT_4O, 1, 0)": the arguments of ask_post_table_text / ask_table_json in
\* pass n of the loop
TableModel(n) == IF n < max_mini_trials THEN MINI ELSE GPT_4O
TableTrials_votes(n) == IF n < max_mini_trials THEN max_mini_trials ELSE 1
TableTrials(n) == IF n < max_mini_trials THEN n ELSE 1
TableTrialCounter(n) == IF n < max_mini_trials THEN n ELSE 0

\* get_table_body: the problem a response is rejected with, none if crop_table
\* finds it in the text block
table_body_problems(response) ==
    CASE response \in {"None", "null", ""} -> <<ProblemPostTable>>
      [] response = "123" -> <<"post-table text: content not str">>
      [] response = "Not in the text block" -> <<"post-table text: no match to text block">>
      [] OTHER -> <<>>

\* get_table_json: the problem a response is rejected with, none if it is a
\* dict of min_key_count keys or more
table_json_problems(response) ==
    CASE response \in {"None", "null", ""} -> <<"json output: model failed to produce table JSON">>
      [] response = "[1, 2]" -> <<"json output: table not in dict form">>
      [] response = "{Assets" -> <<"json output: table not in valid JSON format">>
      [] response = "{\"Assets\": {\"Cash\": [1, 2]}" -> <<"json output: not enough keys in balance sheet JSON">>
      [] OTHER -> <<>>

table_problems(stg, response) ==
    IF stg = "body" THEN table_body_problems(response) ELSE table_json_problems(response)

\* entry of get_table_body / get_table_json up to the first ask_* call
TableStart ==
    /\ pc = "start"
    /\ i' = 0
    /\ problems_list' = <<>>
    /\ model_dict' = [mini |-> None, large |-> None]
    /\ result_dict' = [accepted |-> FALSE]
    /\ asked' = <<TableModel(0)>>
    /\ StartGptAt(TableModel(0), "str", TableTrials(0), TableTrialCounter(0), "tier")
    /\ UNCHANGED <<step, stage, decision, log, column, has_section, prior, tiers, mainVars>>

\* the loop body after ask_* returned: "response = list(response.values())[0]",
\* the checks, and then break, continue with the next pass, or the end of
\* the loop and update_json
TableDecide ==
    /\ pc = "returned"
    /\ caller = "tier"
    /\ LET response == votes[1].form
           problems == table_problems(stage, response)
           md == IF TableModel(i) = MINI THEN [model_dict EXCEPT !.mini = PyStr(response)]
                 ELSE [model_dict EXCEPT !.large = PyStr(response)]
       IN  /\ tiers' = Append(tiers, [model |-> TableModel(i), response |-> response,
                                      responses |-> Len(votes), calls |-> calls,
                                      problems |-> problems, accepted |-> problems = <<>>])
           /\ model_dict' = md
           /\ IF problems = <<>> \/ i = max_mini_trials
              THEN /\ result_dict' = [accepted |-> problems = <<>>]
                   /\ problems_list' = problems
                   /\ log' = update_json(log, result_dict', md, problems)
                   /\ pc' = "done"
                   /\ UNCHANGED <<i, asked, caller, gptVars>>
              ELSE /\ i' = i + 1
                   /\ problems_list' = new_problems_list(problems)
                   /\ asked' = Append(asked, TableModel(i + 1))
                   /\ StartGptAt(TableModel(i + 1), "str", TableTrials(i + 1),
                                 TableTrialCounter(i + 1), "tier")
                   /\ UNCHANGED <<log, result_dict>>
    /\ UNCHANGED <<step, stage, decision, column, has_section, prior, mainVars>>

InitTable ==
    /\ step = 2
    /\ stage \in {"body", "json"}
    /\ caller = "tier"
    /\ pc = "start"
    /\ model = MINI
    /\ output_dtype = "str"
    /\ trials = 1
    /\ trial_counter = 0
    /\ fail_counter = 0
    /\ votes = <<>>
    /\ majority = FALSE
    /\ calls = 0
    /\ pacing = NoPacing
    /\ decision = None
    /\ i = 0
    /\ problems_list = <<>>
    /\ model_dict = <<>>
    /\ result_dict = <<>>
    /\ prior = <<>>
    /\ log = [data |-> <<>>, model |-> <<>>, problems |-> prior]
    /\ column = 0
    /\ has_section = TRUE
    /\ IdleMain
    /\ asked = <<>>
    /\ tiers = <<>>

NextTable ==
    \/ TableStart
    \/ GptStep
    \/ TableDecide

SpecTable == InitTable /\ [][NextTable]_vars

-----------------------------------------------------------------------------
(* Properties of the vote collection (SpecVote) *)

\* two votes are the same vote: equal values in steps 1 and 2 (all strings),
\* equal string forms in step 3
SameVote(a, b) == IF step = 3 THEN Str(a) = Str(b) ELSE a = b

\* number of collected votes that are the same vote as v
EqCount(v) == Cardinality({k \in DOMAIN votes : SameVote(votes[k], v)})

\* the votes the oracle could still cast
PossibleVotes == {NewVote(raw) : raw \in RawOutputs}

\* highest count among the collected votes
LeaderCount == IF votes = <<>> THEN 0
               ELSE CHOOSE c \in 1..Len(votes) :
                        /\ \E k \in DOMAIN votes : EqCount(votes[k]) = c
                        /\ \A k \in DOMAIN votes : EqCount(votes[k]) <= c

\* a collected vote of highest count
LeaderVote == votes[CHOOSE k \in DOMAIN votes : EqCount(votes[k]) = LeaderCount]

\* two distinct values share the highest count
TieAtTop ==
    \E a, b \in DOMAIN votes :
        /\ ~SameVote(votes[a], votes[b])
        /\ EqCount(votes[a]) = LeaderCount
        /\ EqCount(votes[b]) = LeaderCount

\* C1: count_votes returns a value v only if the number of collected votes
\* equal to v is at least ceil(n/2), n the number of collected votes; when no
\* value has that many votes it returns None (undecided).
ThmC1_MajorityThreshold ==
    pc = "done" =>
        /\ decision # None => EqCount(decision) >= Ceil2(Len(votes))
        /\ decision = None => LeaderCount < Ceil2(Len(votes))

WitC1_MajorityWithMinority ==
    /\ pc = "done"
    /\ decision # None
    /\ Len(votes) >= 3
    /\ \E k \in DOMAIN votes : ~SameVote(votes[k], decision)

OrigC3_NoEqualCompetitor ==
    (majority /\ trials > 1) =>
        \A w \in PossibleVotes :
            ~SameVote(w, LeaderVote) => EqCount(w) + (trials - Len(votes)) < LeaderCount

\* C3 amended: after an early stop no outcome of the trials not issued gives
\* another value a count larger than the leader's count; for odd trial counts
\* it cannot be equal either.
ThmC3_Unbeatable ==
    (majority /\ trials > 1) =>
        \A w \in PossibleVotes :
            ~SameVote(w, LeaderVote) =>
                /\ EqCount(w) + (trials - Len(votes)) <= LeaderCount
                /\ trials % 2 = 1 => EqCount(w) + (trials - Len(votes)) < LeaderCount

WitC3_EarlyStopWithRival ==
    /\ majority
    /\ trials = 5
    /\ Len(votes) = 4
    /\ \E k \in DOMAIN votes : EqCount(votes[k]) = 1

\* C4: for T > 1, as soon as a value's count among the collected votes
\* reaches ceil(T/2) the loop issues no further oracle call (it is no longer
\* at a call site) and returns the votes collected so far, the last of which
\* is the vote that reached the threshold.
ThmC4_EarlyStop ==
    trials > 1 =>
        /\ pc = "gpt" => LeaderCount < Ceil2(trials)
        /\ (pc \in {"returned", "done"} /\ LeaderCount >= Ceil2(trials)) =>
                /\ majority
                /\ EqCount(votes[Len(votes)]) = Ceil2(trials)
                /\ calls = Len(votes) + fail_counter
                /\ trial_counter = Len(votes)

WitC4_ThreeOfFive ==
    /\ pc = "returned"
    /\ step = 1
    /\ trials = 5
    /\ Len(votes) = 3
    /\ calls = 3
    /\ EqCount(votes[1]) = 3

\* C5: in step 3 votes are counted by string form, and the decision is the
\* typed value of the first collected vote whose string form is the winning
\* string form.
ThmC5_FirstTypedVote ==
    (pc = "done" /\ step = 3) =>
        /\ decision # None =>
              \E k \in DOMAIN votes :
                  /\ votes[k] = decision
                  /\ \A j \in DOMAIN votes : j < k => Str(votes[j]) # Str(decision)
                  /\ Cardinality({j \in DOMAIN votes : Str(votes[j]) = Str(decision)}) >= Ceil2(Len(votes))
                  /\ \A j \in DOMAIN votes :
                        Cardinality({h \in DOMAIN votes : Str(votes[h]) = Str(votes[j])})
                            <= Cardinality({h \in DOMAIN votes : Str(votes[h]) = Str(decision)})
        /\ decision = None =>
              \A k \in DOMAIN votes :
                  Cardinality({j \in DOMAIN votes : Str(votes[j]) = Str(votes[k])}) < Ceil2(Len(votes))

WitC5_ListWinsWithStringVotes ==
    /\ pc = "done"
    /\ step = 3
    /\ decision.ty = "list"
    /\ \E j \in DOMAIN votes : votes[j].ty = "str" /\ Str(votes[j]) = Str(decision)
    /\ Cardinality({j \in DOMAIN votes : votes[j] = decision}) < Ceil2(Len(votes))

-----------------------------------------------------------------------------
(* Properties of the tier loops (SpecStage) *)

InSeq(x, seq) == \E k \in DOMAIN seq : seq[k] = x

\* the large model was asked as the second tier
StrongAsked == InSeq(GPT_4O, asked)

\* tier t validated, was suspect, and its supervisor's output was no list or
\* an empty list
SoftFail(t) ==
    /\ tiers[t].validated
    /\ tiers[t].suspect
    /\ (tiers[t].sup.ty # "list" \/ tiers[t].sup.form = "[]")

\* tier t validated, was suspect, and its supervisor returned a non-list
NonList(t) ==
    /\ tiers[t].validated
    /\ tiers[t].suspect
    /\ tiers[t].sup.ty = "str"

\* tier t validated, was suspect, and its supervisor returned a non-empty list
ValidList(t) ==
    /\ tiers[t].validated
    /\ tiers[t].suspect
    /\ tiers[t].sup.ty = "list"
    /\ tiers[t].sup.form # "[]"

SoftProblems ==
    {"CCP: suspicious key path(s) detected", "LTD: suspicious key path(s) detected",
     "CCP: missing sum(s) detected: index = 1", "CCP: missing sum(s) detected: index = 2",
     "LTD: missing sum(s) detected: index = 1", "LTD: missing sum(s) detected: index = 2"}

MissingSumTexts ==
    {"CCP: missing sum(s) detected: index = 1", "CCP: missing sum(s) detected: index = 2",
     "LTD: missing sum(s) detected: index = 1", "LTD: missing sum(s) detected: index = 2"}

SuspiciousText == IF stage = "ccp" THEN "CCP: suspicious key path(s) detected"
                  ELSE "LTD: suspicious key path(s) detected"

\* C6 as stated: the strong tier is queried only if the cheap tier's decision
\* failed the validation gate.
OrigC6_StrongOnlyAfterRejection ==
    StrongAsked => (Len(tiers) >= 1 /\ ~tiers[1].validated)

\* C6 amended: the strong tier is queried only if the cheap tier's pass ended
\* with a problem (a failed validation or, in the CCP and LTD stages, a
\* suspicious-key-path or missing-sum problem on a validated decision); once
\* a tier's pass ends without problems no later tier is queried.
ThmC6_StrongOnlyAfterProblems ==
    /\ StrongAsked => (Len(tiers) >= 1 /\ tiers[1].problems # <<>>)
    /\ (StrongAsked /\ stage = "units") => ~tiers[1].validated
    /\ \A t \in DOMAIN tiers :
          /\ tiers[t].problems = <<>> =>
                /\ tiers[t].validated
                /\ t = Len(tiers)
                /\ pc = "done"
                /\ t = 1 => ~StrongAsked
          /\ (tiers[t].validated /\ tiers[t].problems # <<>>) =>
                \A k \in DOMAIN tiers[t].problems : tiers[t].problems[k] \in SoftProblems

WitC6_ValidatedCheapEscalates ==
    /\ stage = "ccp"
    /\ pc = "done"
    /\ Len(tiers) = 2
    /\ tiers[1].validated
    /\ tiers[1].problems = <<"CCP: missing sum(s) detected: index = 1">>
    /\ StrongAsked
    /\ tiers[2].problems = <<>>

\* C7 as stated: after a soft supervisor failure the stage does not escalate
\* to the next tier.
OrigC7_SoftFailNoEscalation ==
    \A t \in DOMAIN tiers :
        SoftFail(t) =>
            /\ InSeq(SuspiciousText, tiers[t].problems)
            /\ t = 1 => ~StrongAsked

\* C7 amended: after a soft supervisor failure the tier's unfiltered decision
\* is recorded with a 'suspicious key path(s)' problem; the strong tier's
\* decision is then persisted with that problem, while the cheap tier's pass
\* makes the stage escalate to the strong tier.
ThmC7_SoftFailWarning ==
    \A t \in DOMAIN tiers :
        SoftFail(t) =>
            /\ InSeq(SuspiciousText, tiers[t].problems)
            /\ tiers[t].key_paths = DictContent(tiers[t].decision.form)
            /\ ~tiers[t].accepted
            /\ t = 1 => (Len(asked) >= 3 /\ asked[3] = GPT_4O)
            /\ t = 2 =>
                  /\ pc = "done"
                  /\ log.data.key_paths = DictContent(tiers[t].decision.form)
                  /\ InSeq(SuspiciousText, log.problems)

WitC7_StrongAcceptedWithWarning ==
    /\ pc = "done"
    /\ Len(tiers) = 2
    /\ SoftFail(1)
    /\ SoftFail(2)
    /\ tiers[2].sup.form = "[]"
    /\ prior = <<>>
    /\ log.problems = <<SuspiciousText>>

ThmC9_SupervisorRemoval ==
    \A t \in DOMAIN tiers :
        ValidList(t) =>
            LET content == DictContent(tiers[t].decision.form)
                listed == ListContent(tiers[t].sup.form)
                kept == tiers[t].key_paths
            IN  /\ DOMAIN kept = DOMAIN content \ listed
                /\ \A k \in DOMAIN kept : kept[k] = content[k]
                /\ ~InSeq(SuspiciousText, tiers[t].problems)
                /\ \A k \in DOMAIN tiers[t].problems : tiers[t].problems[k] \in MissingSumTexts
                /\ tiers[t].problems = <<>> =>
                      /\ tiers[t].accepted
                      /\ t = Len(tiers)
                      /\ pc = "done"
                      /\ t = 1 => ~StrongAsked
                      /\ log.data.key_paths = kept
                      /\ log.problems = prior

WitC9_SecondKeyRemoved ==
    /\ pc = "done"
    /\ Len(tiers) = 1
    /\ ValidList(1)
    /\ tiers[1].sup.form = "['2']"
    /\ DOMAIN log.data.key_paths = {"1"}
    /\ asked = <<MINI, SUPERVISOR>>

\* the cheap tier of get_sum_units decided on an integer outside {1, 1000, 1000000}
CheapUnitsOutside ==
    /\ stage = "units"
    /\ Len(tiers) >= 1
    /\ tiers[1].decision \in {PyStr("7"), PyStr("0")}

\* C10 as stated: the persisted problem list includes the cheap tier's 'out
\* of range' problem even when the strong tier's decision is accepted.
OrigC10_CheapProblemKept ==
    (CheapUnitsOutside /\ pc = "done" /\ Len(tiers) = 2 /\ tiers[2].accepted) =>
        InSeq("units: sum reporting units out of range", log.problems)

\* C10 amended: a cheap-tier decision outside {1, 1000, 1000000} makes
\* get_sum_units query the strong tier, and when the strong tier's decision
\* is accepted the stage adds no problem to the persisted list: the cheap
\* tier's problem is dropped.
ThmC10_CheapProblemDropped ==
    CheapUnitsOutside =>
        /\ StrongAsked
        /\ tiers[1].problems =
              IF tiers[1].decision = PyStr("7")
              THEN <<"units: sum reporting units out of range">>
              ELSE <<"units: sum reporting units not convertible to int">>
        /\ (pc = "done" /\ tiers[2].accepted) =>
              /\ log.problems = prior
              /\ log.data.sum_units \in {1, 1000, 1000000}

WitC10_SevenThenThousand ==
    /\ CheapUnitsOutside
    /\ pc = "done"
    /\ tiers[1].decision = PyStr("7")
    /\ tiers[2].accepted
    /\ tiers[2].decision = PyStr("1000")
    /\ prior = <<>>
    /\ log.problems = <<>>

\* the set of elements of a sequence
Range(seq) == {seq[k] : k \in DOMAIN seq}

\* the stage ran both tiers and neither decision passed validation
BothRejected ==
    /\ pc = "done"
    /\ Len(tiers) = 2
    /\ ~tiers[1].validated
    /\ ~tiers[2].validated

\* C11 as stated: when no tier passes validation the persisted problem list
\* contains the validation problems of every attempted tier.
OrigC11_AllTiersProblemsKept ==
    BothRejected =>
        \A t \in DOMAIN tiers : Range(tiers[t].problems) \subseteq Range(log.problems)

\* C11 amended: when no tier passes validation the stage adds to the
\* persisted problem list the validation problems of the last tier only; the
\* cheap tier's problems are dropped when the strong tier's pass begins.
ThmC11_LastTierProblemsKept ==
    BothRejected =>
        /\ tiers[1].problems # <<>>
        /\ tiers[2].problems # <<>>
        /\ Range(log.problems) = Range(prior) \cup Range(tiers[2].problems)
        /\ Len(log.problems) = Cardinality(Range(log.problems))

WitC11_TwoDifferentRejections ==
    /\ BothRejected
    /\ prior = <<>>
    /\ tiers[1].problems # tiers[2].problems
    /\ Range(tiers[1].problems) \cap Range(tiers[2].problems) = {}
    /\ log.problems = tiers[2].problems

\* the problems a failed validation gate appends
ValidationProblems ==
    {"units: sum reporting units not found",
     "units: sum reporting units not convertible to int",
     "units: sum reporting units out of range",
     "balance sheet: no table found in text block list",
     "balance sheet: table index out of range: 5, when len(balance_sheet_text) = 3",
     "balance sheet: table text block too short: 100",
     "value column: dates not returned as list",
     "CCP: key paths not found", "LTD: key paths not found",
     "CCP: dict paths not in dict format", "LTD: dict paths not in dict format",
     "CCP: problematic dict path: index = 1", "CCP: problematic dict path: index = 2",
     "LTD: problematic dict path: index = 1", "LTD: problematic dict path: index = 2"}

\* C12: a tier's validation problem is persisted only if no tier of the stage
\* produced an accepted decision; when a later tier recovers, the stage
\* persists no validation problem.
ThmC12_RecoveryPersistsNothing ==
    (pc = "done" /\ Len(tiers) >= 1) =>
        /\ (\E t \in DOMAIN tiers : tiers[t].accepted) => log.problems = prior
        /\ (Range(log.problems) \ Range(prior)) \cap ValidationProblems # {} =>
              /\ \A t \in DOMAIN tiers : ~tiers[t].accepted
              /\ ~tiers[Len(tiers)].validated
              /\ Len(tiers) = 2

WitC12_StrongRecovers ==
    /\ pc = "done"
    /\ stage = "ltd"
    /\ Len(tiers) = 2
    /\ tiers[1].problems = <<"LTD: dict paths not in dict format">>
    /\ tiers[2].accepted
    /\ prior = <<>>
    /\ log.problems = <<>>

\* the result the stage persisted in the log is null
StageResultNull ==
    CASE stage = "index" -> log.data.table_index = NoneInt
      [] stage = "units" -> log.data.sum_units = NoneInt /\ log.data.sum_divider = NoneInt
      [] stage = "vd" -> log.data.value_date_column = NoneInt
      [] OTHER -> log.data.key_paths = NoneDict /\ log.data.total_sum = NoneInt

\* C13 as stated: when no tier's decision passes validation, the result
\* persisted for the stage is null, the rejected decision is not recorded;
\* for the table-index, units, value-date-column, CCP and LTD stages.
OrigC13_RejectedNeverRecorded ==
    BothRejected => StageResultNull

-----------------------------------------------------------------------------
(* Properties of get_forms_info (SpecSched) *)

Ascending(seq) == \A a, b \in DOMAIN seq : a < b => seq[a] < seq[b]

Min2(a, b) == IF a < b THEN a ELSE b

ThmC17_SkipExistingBatch ==
    (RETRY_LIST = <<>> /\ SKIP_EXISTING) =>
        \A k \in DOMAIN returned :
            LET b == returned[k].before
                nulls == form_ids \ existing
                r == Cardinality(nulls)
                got == Range(returned[k].forms_info)
            IN  /\ ~returned[k].raised
                /\ Ascending(returned[k].forms_info)
                /\ Len(returned[k].forms_info) = (IF b = NoneInt THEN r ELSE Min2(b, r))
                /\ got \subseteq nulls
                /\ \A x \in got : \A y \in nulls \ got : x < y

WitC17_SecondOfThree ==
    /\ RETRY_LIST = <<>>
    /\ SKIP_EXISTING
    /\ form_ids = 1..3
    /\ existing = {1}
    /\ returned # <<>>
    /\ returned[1].before = 1
    /\ returned[1].forms_info = <<2>>

\* C18: two calls of get_forms_info in skip-existing mode with no write in
\* between return the same batch, also when the first call has rewritten
\* BATCH_SIZE.
ThmC18_SelectionIdempotent ==
    (RETRY_LIST = <<>> /\ SKIP_EXISTING /\ Len(returned) = 2) =>
        /\ returned[2].forms_info = returned[1].forms_info
        /\ returned[2].after = returned[1].after

WitC18_SecondCallAfterRewrite ==
    /\ RETRY_LIST = <<>>
    /\ SKIP_EXISTING
    /\ Len(returned) = 2
    /\ returned[1].before = NoneInt
    /\ returned[1].after = 2
    /\ returned[2].before = 2
    /\ returned[2].forms_info = <<1, 3>>

-----------------------------------------------------------------------------
(* The stage functions of a run agree with the tier loop (SpecStage) *)

\* the supervisor decision of a tier record, None when it was not asked
SupOf(t) == IF t.sup = NotAsked THEN None ELSE t.sup

\* paths_result computes what the tier loop of get_ccp / get_ltd logs
PathsResultAgrees ==
    (pc = "done" /\ stage \in {"ccp", "ltd"} /\ has_section) =>
        LET t1 == tiers[1]
            t2 == tiers[Len(tiers)]
            r == paths_result(stage, column, t1.decision, SupOf(t1), t2.decision, SupOf(t2))
        IN  /\ log.data.total_sum = r.total_sum
            /\ log.problems = Dedup(prior \o r.problems)

\* vd_column_result computes what the tier loop of get_vd_column logs
VdResultAgrees ==
    (pc = "done" /\ stage = "vd") =>
        LET r == vd_column_result(tiers[1].decision, tiers[Len(tiers)].decision)
        IN  /\ log.data.value_date_column = r.value_date_column
            /\ log.problems = Dedup(prior \o r.problems)

-----------------------------------------------------------------------------
(* Properties of a run of main (SpecRun) *)

\* the problems get_ccp / get_ltd log when the section is not found or when
\* no tier passed validation
StageFailureProblems ==
    {ProblemSectionMissing("ccp"), ProblemSectionMissing("ltd"),
     ProblemNotFound("ccp"), ProblemNotFound("ltd"),
     ProblemNotDict("ccp"), ProblemNotDict("ltd"),
     ProblemBadPath("ccp", "1"), ProblemBadPath("ltd", "1")}

\* this run logged a stage failure for form f
StageFailureLogged(f) ==
    /\ f \in log_written
    /\ \E k \in DOMAIN logs[f].problems : logs[f].problems[k] \in StageFailureProblems

\* C14: a stage whose tiers all fail validation, or whose section is not
\* found, never aborts the run: the run stops at an item with such a failure
\* logged only because the operator interrupted it or an oracle call raised,
\* never because of the failure itself
OrigC14_StageFailureNeverAborts ==
    (run_pc = "ended" /\ form_i < Len(forms_info) /\ StageFailureLogged(forms_info[form_i + 1])) =>
        \/ exit_kind = "interrupt"
        \/ error \in {"Exception", "RateLimitError"}

\* nothing was called or written in this run
NoSideEffects == oracle_for = {} /\ log_written = {} /\ ledger_written = {}

PrerequisitesMissing(f) ==
    \/ ~Tasks[f].present
    \/ \E k \in DOMAIN Tasks[f].previous : Tasks[f].previous[k] < 0

\* f is in the skipped list of the emitted summary
ReportedSkipped(f) ==
    /\ summary.emitted
    /\ \E k \in DOMAIN summary.skipped : summary.skipped[k] = f

\* main ended after it had entered its loop over the batch
EndedInLoop ==
    /\ run_pc = "ended"
    /\ forms_info # <<>>
    /\ \/ exit_kind = "normal"
       \/ error \in {"Exception", "RateLimitError", "KeyError", "TypeError"}
       \/ exit_kind = "interrupt" /\ (Overwriting => overwrite # NoAnswer)

Untouched ==
    /\ Tasks = initial.Tasks
    /\ FormProblems = initial.FormProblems
    /\ logs = initial.logs

\* a positive integer: an instance of int (bool included, as isinstance
\* has it) whose value is at least 1
PositiveInteger(v) == v.ty \in {"int", "bool"} /\ int_value(v) >= 1

\* the user-defined variables are not acceptable
InvalidSettings ==
    \/ settings.BATCH_SIZE # None /\ ~PositiveInteger(settings.BATCH_SIZE)
    \/ settings.SKIP_EXISTING.ty # "bool"
    \/ /\ settings.SKIP_EXISTING = PyVal("bool", "False")
       /\ RETRY_LIST = <<>>
       /\ \/ ~PositiveInteger(settings.FIRST_ROW_TO_OVERWRITE)
          \/ int_value(settings.FIRST_ROW_TO_OVERWRITE) > Cardinality(form_ids)

ThmC22_EmptyBatchTouchesNothing ==
    (run_pc # "start" /\ ~InvalidSettings /\ forms_info = <<>>) =>
        /\ run_pc \in {"confirm", "ended"}
        /\ run_pc = "ended" => exit_kind \in {"empty", "declined", "interrupt"}
        /\ NoSideEffects
        /\ Untouched
        /\ ~summary.emitted

\* every form of the table was already processed
WitC22_AllProcessed ==
    /\ exit_kind = "empty"
    /\ form_ids # {}
    /\ existing = form_ids

-----------------------------------------------------------------------------
(* Properties of the oracle calls (SpecStage) *)

\* C25: every oracle call (first call, retry after a failed call, first call
\* of the next tier or of the supervisor) comes right after a
\* time.sleep(PLAY_NICE): no create event follows another event than a sleep
ThmC25_EveryCallPaced ==
    /\ ~pacing.unpaced
    /\ calls > 0 => pacing.last = "create"

\* the strong tier's first call failed and its retry returned
WitC25_RetryInStrongTier ==
    /\ i = 1
    /\ model = GPT_4O
    /\ fail_counter = 1
    /\ calls = 2
    /\ pc = "returned"
    /\ pacing.last = "create"

\* a RateLimitError ends gpt_completion: no step follows it
RateLimitIsFinal == [][pc # "quota"]_vars

-----------------------------------------------------------------------------
(* Properties of a run whose oracle fails (SpecRun) *)

\* the forms of the batch after the one the loop is at
LaterForms == {forms_info[k] : k \in (form_i + 2)..Len(forms_info)}

\* the run has ended at the form the loop was at: that form got no ledger
\* write, and the forms after it no oracle call and no write at all
EndedAtForm ==
    /\ run_pc = "ended"
    /\ exit_kind = "error"
    /\ form_i < Len(forms_info)
    /\ forms_info[form_i + 1] \notin ledger_written
    /\ LaterForms \cap (oracle_for \cup log_written \cup ledger_written) = {}
    /\ \A f \in LaterForms \cup {forms_info[form_i + 1]} :
          Tasks[f] = initial.Tasks[f] /\ FormProblems[f] = initial.FormProblems[f]

\* C23 as stated: when the attempt budget is exhausted for an item, the
\* remaining items of the batch are still processed: the run does not end
\* on the exhausted budget while forms of the batch remain
OrigC23_BudgetAbortsItemOnly ==
    ~(run_pc = "ended" /\ error = "Exception" /\ LaterForms # {})

\* C23: when gpt_completion raises after GPT_ATTEMPTS failed calls, the run
\* ends: the item gets no ledger write and no later item of the batch is
\* processed
ThmC23_BudgetAbortsRun ==
    error = "Exception" => EndedAtForm

\* the budget was exhausted at the first form while a form with complete
\* prerequisites was waiting
WitC23_ReadyFormLeftBehind ==
    /\ error = "Exception"
    /\ form_i = 0
    /\ \E f \in LaterForms : ~tasks_incomplete(Tasks[f]) /\ logs[f].present

\* C24: when a completion raises RateLimitError the run ends: the item gets
\* no ledger write, and no later item of the batch gets an oracle call or a
\* write
ThmC24_QuotaEndsRun ==
    error = "RateLimitError" => EndedAtForm

\* the quota ran out at the second form, after the first was processed,
\* and the summary covers the first
WitC24_QuotaAtSecondForm ==
    /\ error = "RateLimitError"
    /\ form_i = 1
    /\ forms_info[1] \in ledger_written
    /\ summary.emitted

-----------------------------------------------------------------------------
(* Properties of get_balance_problems and update_sql (SpecLedger, SpecRun) *)

\* no two FormProblems rows of the form hold the same Problem_id
OneRowPerProblem(f) ==
    \A a, b \in DOMAIN FormProblems[f] : FormProblems[f][a] = FormProblems[f][b] => a = b

\* C26: after update_sql of any of the steps, FormProblems holds at most one
\* row per (form, problem id), and a problem that was logged more than once
\* (also one an earlier step logged and stored) never keeps the form from
\* being processed: the INSERT never fails on the stored row
OrigC26_ProcessedWithOneRowPerProblem ==
    \A f \in form_ids :
        /\ OneRowPerProblem(f)
        /\ error # "IntegrityError"

\* the problem ids of the descriptions the stages logged for the form in this run
AttemptIds(f) == {problem_trunc(p) : p \in Range(attempt_problems[f])}

\* C27: after a form was processed in overwrite or retry mode, the problem
\* list of its log and its FormProblems rows are exactly the problems logged
\* during that attempt
ThmC27_OnlyNewAttemptPersisted ==
    \A f \in ledger_written :
        Overwriting =>
            /\ logs[f].problems = attempt_problems[f]
            /\ Range(FormProblems[f]) = AttemptIds(f)

\* a form that had a FormProblems row was processed again, and the row is
\* gone while another problem is stored
WitC27_OldProblemReplaced ==
    \E f \in ledger_written :
        /\ Overwriting
        /\ FormProblems[f] # <<>>
        /\ \E k \in DOMAIN initial.FormProblems[f] :
              initial.FormProblems[f][k] \notin Range(FormProblems[f])

\* the log of the form holds a description the Problems table has no row for
Unregistered(f) ==
    \E k \in DOMAIN logs[f].problems : problem_trunc(logs[f].problems[k]) \notin Problems

\* C28: when the log holds a description without a row in Problems,
\* get_balance_problems raises ValueError and main ends: the form is not
\* listed among the forms with problems, and neither its Tasks row nor its
\* FormProblems rows are written
ThmC28_UnregisteredProblemAborts ==
    \A f \in form_ids :
        Unregistered(f) =>
            /\ f \notin ledger_written
            /\ Tasks[f] = initial.Tasks[f]
            /\ FormProblems[f] = initial.FormProblems[f]
            /\ forms_with_problems = <<>>
            /\ run_pc \in {"sql", "ended"}
            /\ run_pc = "ended" =>
                  \/ exit_kind = "error" /\ error = "ValueError"
                  \/ exit_kind = "interrupt"

\* get_balance_problems raised on the drifted description
WitC28_ValueErrorOnDriftedProblem ==
    \E f \in form_ids :
        /\ Unregistered(f)
        /\ run_pc = "ended"
        /\ error = "ValueError"

\* C29: from the prompt of update_sql ("database is locked") the run either
\* waits at the prompt again, or the same write was committed and the loop
\* goes on with the next form, or main ends without a write because the
\* operator quit ('Q' or Ctrl-C) or another OperationalError was raised
ThmC29_LockedWriteNeverDropped ==
    [][run_pc = "locked" =>
          \/ run_pc' = "locked" /\ UNCHANGED <<form_i, Tasks, FormProblems>>
          \/ /\ run_pc' = "loop"
             /\ form_i' = form_i + 1
             /\ Form \in ledger_written'
             /\ Tasks'[Form] = update_tasks(step, Tasks[Form], update_sql_reads(step, logs[Form]).values)
          \/ /\ run_pc' = "ended"
             /\ UNCHANGED <<form_i, Tasks, FormProblems>>
             /\ \/ exit_kind' \in {"quit", "interrupt"}
                \/ exit_kind' = "error" /\ error' = "OperationalError"]_vars

\* the operator pressed ENTER at the prompt and the database was still
\* locked in the next pass
WitC29_StillLockedAfterRetry ==
    /\ run_pc = "locked"
    /\ retry_input = ""
    /\ form_i = 1

\* the forms the loop of main has finished with, and those of them that
\* were not skipped
Handled == {forms_info[k] : k \in 1..form_i}
Processed == Handled \ Range(previous_tasks_incomplete)

\* C30: whenever main ends after at least one form was handled, report_done
\* prints a summary whose form count is the number of forms processed in
\* this run, which is not negative
OrigC30_SummaryCountsProcessed ==
    run_pc = "ended" /\ form_i > 0 =>
        /\ summary.emitted
        /\ summary.form_cnt = Cardinality(Processed)
        /\ summary.form_cnt >= 0

-----------------------------------------------------------------------------
(* Properties of one gpt_completion call (SpecVote) *)

\* C31: for T > 1 trials, count_votes applied to the votes gpt_completion
\* returned yields a value if and only if the loop stopped by the early-stop
\* rule (check_majority was true); when all T trials were used without an
\* early stop, count_votes yields None.
ThmC31_DecidedIffEarlyStop ==
    (pc = "done" /\ trials > 1) =>
        /\ (decision # None) <=> majority
        /\ ~majority => (Len(votes) = trials /\ decision = None)

WitC31_AllTrialsUndecided ==
    /\ pc = "done"
    /\ trials = 5
    /\ Len(votes) = 5
    /\ LeaderCount = 2
    /\ ~majority
    /\ decision = None

\* C32: a gpt_completion call with T >= 1 trials makes at most
\* T + GPT_ATTEMPTS - 1 oracle calls (while it is at a call site fewer than
\* that have been made), and it ends either by returning between ceil(T/2)
\* and T votes, never an empty vote map, or by raising.
ThmC32_BoundedCalls ==
    /\ calls <= trials + GPT_ATTEMPTS - 1
    /\ pc = "gpt" => calls < trials + GPT_ATTEMPTS - 1
    /\ pc \in {"returned", "done"} =>
          /\ votes # <<>>
          /\ Ceil2(trials) <= Len(votes)
          /\ Len(votes) <= trials
    /\ pc \in {"raised", "quota"} => decision = None

WitC32_LastCallReturns ==
    /\ pc = "returned"
    /\ trials = 5
    /\ Len(votes) = 5
    /\ fail_counter = GPT_ATTEMPTS - 1
    /\ calls = trials + GPT_ATTEMPTS - 1

\* C33: within one gpt_completion call the failures of all trials draw on one
\* budget: the number of transient failures since the call began (calls that
\* added no vote) is fail_counter, the fatal error is raised exactly when it
\* reaches GPT_ATTEMPTS, a success does not reset it, and a failed attempt
\* adds no vote and does not advance the trial index.
ThmC33_SharedFailureBudget ==
    pc # "quota" =>
        LET failures == calls - Len(votes)
        IN  /\ fail_counter = failures
            /\ failures <= GPT_ATTEMPTS
            /\ (pc = "raised") <=> (failures = GPT_ATTEMPTS)
            /\ trials > 1 => trial_counter = Len(votes)

WitC33_RaisedAfterTwoVotes ==
    /\ pc = "raised"
    /\ trials = 5
    /\ Len(votes) = 2
    /\ trial_counter = 2
    /\ calls = 2 + GPT_ATTEMPTS

-----------------------------------------------------------------------------
(* Properties of what get_ccp and get_ltd persist (SpecStage) *)

\* the result and the problems in the log are those of tier attempt t: the
\* result is the one attempt t computed (null when its decision was rejected)
\* and the problems the stage added are the problems of attempt t
FromAttempt(t) ==
    /\ log.problems = Dedup(prior \o tiers[t].problems)
    /\ log.data.key_paths = (IF tiers[t].validated THEN tiers[t].key_paths ELSE NoneDict)
    /\ ~tiers[t].validated => (log.data.path_sums = NoneSums /\ log.data.total_sum = NoneInt)

\* C34 as stated: for the CCP and LTD stages the persisted result (key_paths,
\* path_sums, total_sum) and the persisted problem list come from the same
\* tier attempt.
OrigC34_ResultAndProblemsOfOneAttempt ==
    (pc = "done" /\ stage \in {"ccp", "ltd"} /\ tiers # <<>>) =>
        \E t \in DOMAIN tiers : FromAttempt(t)

-----------------------------------------------------------------------------
(* Properties of repeated skip-existing runs of step 3 (SpecAgain) *)

\* the forms whose Tasks / FormProblems rows some run has written so far
WrittenSoFar == ledger_written \cup UNION {written_before[k] : k \in DOMAIN written_before}

\* the prerequisites of form f are complete: its previous columns pass
\* check_previous_tasks, and its log and its table file exist
Ready(f) ==
    /\ ~tasks_incomplete(Tasks[f])
    /\ logs[f].present
    /\ table_file_exists(logs[f])

\* C35 as stated, in the form one run refutes: in skip-existing mode with a
\* finite batch size, repeated runs whose oracle calls all succeed process
\* every form whose prerequisites are complete. A run that ends normally
\* without a ledger write leaves the ledger as it found it, and every later
\* run selects the same batch and does the same; so while a ready form waits
\* no such run may end without having written a form.
OrigC35_NoIdleRunWhileReadyFormWaits ==
    (/\ run_pc = "ended"
     /\ exit_kind = "normal"
     /\ SKIP_EXISTING
     /\ settings.BATCH_SIZE # None
     /\ \E f \in form_ids : Ready(f) /\ f \notin WrittenSoFar) =>
        ledger_written # {}

\* C36 as stated: in skip-existing mode no run selects a form whose results
\* an earlier run wrote to the ledger, whatever the outcome of its stages.
OrigC36_WrittenFormNotSelectedAgain ==
    (SKIP_EXISTING /\ RETRY_LIST = <<>>) =>
        \A k \in DOMAIN written_before : Range(forms_info) \cap written_before[k] = {}

\* C37 as stated: step 3 runs no stage on a form with JsonTable = 0: the
\* form is skipped as prerequisites-incomplete, nothing is written to its
\* log, and its table file is never opened.
OrigC37_NoTableFormSkipped ==
    \A f \in form_ids :
        (Tasks[f].present /\ Tasks[f].previous[4] = 0) =>
            /\ f \notin log_written
            /\ error # "FileNotFoundError"
            /\ (run_pc \in {"vd", "ccp", "ltd", "sql", "locked"}) => Form # f
            /\ (\E k \in 1..form_i : k <= Len(forms_info) /\ forms_info[k] = f) =>
                  \E n \in DOMAIN previous_tasks_incomplete : previous_tasks_incomplete[n] = f

-----------------------------------------------------------------------------
(* The frame of the writes of one form (SpecLedger) *)

\* the columns of a Tasks row that earlier steps wrote: none in step 1, the
\* block count and TableIndex in step 2, these and SumDivider and JsonTable
\* in step 3
EarlierColumns(row) ==
    CASE step = 1 -> <<>>
      [] step = 2 -> IF row.present THEN <<row.previous[1], row.previous[2]>> ELSE <<>>
      [] OTHER -> row.previous

\* C38: a step of the script changes the Tasks row, the FormProblems rows
\* and the log of no form but the one the loop is at; in steps 2 and 3 a row
\* that is there stays there and its columns of earlier steps keep their
\* values.
ThmC38_OnlyTheFormAtHandChanges ==
    [][/\ \A f \in form_ids :
             (Tasks'[f] # Tasks[f] \/ FormProblems'[f] # FormProblems[f] \/ logs'[f] # logs[f]) =>
                 (form_i < Len(forms_info) /\ f = Form)
       /\ step \in {2, 3} =>
             \A f \in form_ids :
                 /\ Tasks'[f].present = Tasks[f].present
                 /\ EarlierColumns(Tasks'[f]) = EarlierColumns(Tasks[f])]_vars

WitC38_Step3WroteItsColumnsOnly ==
    /\ step = 3
    /\ ledger_written = {1}
    /\ ~Overwriting
    /\ Tasks[1] # initial.Tasks[1]
    /\ FormProblems[1] # initial.FormProblems[1]
    /\ EarlierColumns(Tasks[1]) = EarlierColumns(initial.Tasks[1])
    /\ Tasks[2] = initial.Tasks[2]
    /\ FormProblems[2] = initial.FormProblems[2]
    /\ FormProblems[2] # <<>>
    /\ logs[2] = initial.logs[2]

-----------------------------------------------------------------------------
(* Properties of get_table_body and get_table_json (SpecTable) *)

\* C39: every pass of the loop of get_table_body / get_table_json obtains
\* exactly one response of the oracle; gpt-4o-mini is asked at most 3 times
\* and gpt-4o at most once, gpt-4o only after three rejected responses of
\* gpt-4o-mini, and nothing is asked after the first accepted response.
ThmC39_OneResponsePerPass ==
    /\ \A t \in DOMAIN tiers : tiers[t].responses = 1
    /\ pc \in {"returned", "done"} => Len(votes) = 1
    /\ Cnt(asked, MINI) <= max_mini_trials
    /\ Cnt(asked, GPT_4O) <= 1
    /\ \A n \in DOMAIN asked :
          asked[n] = GPT_4O =>
              /\ n = max_mini_trials + 1
              /\ \A t \in 1..max_mini_trials :
                    /\ t \in DOMAIN tiers
                    /\ tiers[t].model = MINI
                    /\ ~tiers[t].accepted
    /\ \A t \in DOMAIN tiers :
          tiers[t].accepted => (t = Len(tiers) /\ Len(asked) = t /\ pc = "done")

WitC39_StrongAcceptedAfterThreeRejections ==
    /\ pc = "done"
    /\ stage = "json"
    /\ Len(tiers) = 4
    /\ asked = <<MINI, MINI, MINI, GPT_4O>>
    /\ tiers[4].accepted
    /\ tiers[3].calls = 3
    /\ log.problems = <<>>

====
